---- MODULE Spec2Model ----
(***************************************************************************)
(* Co-simulation session of the bebop host side: the three-connection      *)
(* SocketClient (command, DMA-read, DMA-write), its caller thread, the two *)
(* detached DMA responder threads it starts per connect, and the           *)
(* accelerator peer with the transport between them.                       *)
(*                                                                         *)
(* Every thread step is one action; a step is one access to the shared     *)
(* SocketClient fields together with the system call that uses the value   *)
(* read, because the fields are plain (unsynchronised) members.            *)
(***************************************************************************)
EXTENDS Integers, Sequences, FiniteSets, TLC

\* ---------------------------------------------------------------- bounds
MaxGen == 2       \* calls of init() that get past its first test
MaxSeq == 2       \* calls of send_and_wait()
MaxDma == 1       \* DMA requests the peer issues in all
MaxDmaFail == 1   \* transport failures that hit the DMA connections
RecLen == 2       \* transport units (bits here) of one command record
MaxDmaLive == 2   \* DMA requests the peer issues in all, in DmaSpec
MaxOps == 3       \* accesses made through the memory callbacks, in MemSpec

\* ------------------------------------------------------------- constants
NoFd == -1        \* the invalid handle
Main == 0         \* the caller thread; the DMA threads are 1..2*MaxGen

Fds == 1..(3 * MaxGen)
Loops == 1..(2 * MaxGen)
Threads == {Main} \cup Loops

\* A record travels as RecLen units, least significant first; a result is
\* the number its units spell.  The peer answers with one of these.
AllOnes == 2 ^ RecLen - 1
Results == {0, AllOnes}
Digit(v, k) == (v \div (2 ^ (k - 1))) % 2
RECURSIVE Value(_)
Value(us) == IF us = <<>> THEN 0 ELSE Head(us)[2] + 2 * Value(Tail(us))
\* the units of the response with result v that answers request i
RespUnits(i, v) == [k \in 1..RecLen |-> <<i, Digit(v, k)>>]
\* the units of request i; unit k carries its position
ReqUnits(i) == [k \in 1..RecLen |-> <<i, k>>]
Take(s, n) == SubSeq(s, 1, n)
Drop(s, n) == SubSeq(s, n + 1, Len(s))
Min(a, b) == IF a < b THEN a ELSE b

\* the g-th connect attempt creates these three sockets
CmdFd(g) == 3 * g - 2
RdFd(g) == 3 * g - 1
WrFd(g) == 3 * g
\* the command socket created by the same connect attempt as fd
CmdOf(fd) == fd - ((fd - 1) % 3)
\* the k-th start_dma_handler() that starts threads starts these two
RdLoop(k) == 2 * k - 1
WrLoop(k) == 2 * k
IsRdLoop(t) == t \in Loops /\ t % 2 = 1

\* ---------------------------------------------- simulated memory, DMA records
\* A 64-bit quantity is the sequence of its 8 bytes, least significant first.
ScenAddr == 4096  \* 0x1000, the address the move-in scenario reads
Addrs == ScenAddr..(ScenAddr + 23)
Widths == {1, 2, 4, 8, 16}
Zero8 == [k \in 1..8 |-> 0]
ZeroData == [lo |-> Zero8, hi |-> Zero8]
\* the memory images a run starts from: distinct bytes, below and above 0x80
MemSeeds == {1, 200}
MemImage(b) == [a \in Addrs |-> (b + 17 * (a - ScenAddr)) % 256]
MemImages == {MemImage(b) : b \in MemSeeds}

\* A faulty read_from_dram that takes each loaded byte as signed, so that a
\* byte with its top bit set fills all higher bytes of the value with ones
RECURSIVE ReadLoopSigned(_, _, _, _, _)
ReadLoopSigned(m, addr, n, byte_idx, value) ==
    IF byte_idx >= n
      THEN value
      ELSE ReadLoopSigned(m, addr, n, byte_idx + 1,
               [k \in 1..n |->
                   IF k = byte_idx + 1 /\ value[k] = 0 THEN m[addr + byte_idx]
                   ELSE IF k > byte_idx + 1 /\ m[addr + byte_idx] >= 128 THEN 255
                   ELSE value[k]])

\* read_from_dram<T>(addr), sizeof(T) = n: T value = 0; for byte_idx in 0..n-1
\* value |= ((T)load(addr + byte_idx)) << (byte_idx * 8); byte k of value is
\* 0 until the iteration with byte_idx = k - 1 ORs the loaded byte into it
RECURSIVE ReadLoop(_, _, _, _, _)
ReadLoop(m, addr, n, byte_idx, value) ==
    IF byte_idx >= n
      THEN value
      ELSE ReadLoop(m, addr, n, byte_idx + 1,
                    [value EXCEPT ![byte_idx + 1] = m[addr + byte_idx]])
\* A faulty read_from_dram that assembles the bytes most significant first
ReadFromDramMsbFirst(m, addr, n) == [k \in 1..n |-> m[addr + n - k]]

ReadFromDram(m, addr, n) == ReadLoop(m, addr, n, 0, [k \in 1..n |-> 0])

\* the addresses read_from_dram<T>(addr) loads, in the order of its loop
RECURSIVE LoadLoop(_, _, _, _)
LoadLoop(addr, n, byte_idx, tr) ==
    IF byte_idx >= n
      THEN tr
      ELSE LoadLoop(addr, n, byte_idx + 1, Append(tr, addr + byte_idx))
Loads(addr, n) == LoadLoop(addr, n, 0, <<>>)

\* A faulty widening that copies the value's top bit into the added bytes
WidenSigned(v) ==
    [k \in 1..8 |-> IF k <= Len(v) THEN v[k]
                    ELSE IF v[Len(v)] >= 128 THEN 255 ELSE 0]

\* value.lo = read_from_dram<T>(addr): the T is widened to 64 bits with zeros
Widen(v) == [k \in 1..8 |-> IF k <= Len(v) THEN v[k] ELSE 0]

\* A faulty read_cb whose 16-byte case fills the halves the other way round
ReadCbSwapped(m, addr, size) ==
    IF size = 16
      THEN [lo |-> ReadFromDram(m, addr + 8, 8), hi |-> ReadFromDram(m, addr, 8)]
      ELSE [lo |-> Widen(ReadFromDram(m, addr, size)), hi |-> Zero8]

\* read_cb(addr, size) for the sizes its switch has a case for
ReadCb(m, addr, size) ==
    IF size = 16
      THEN [lo |-> ReadFromDram(m, addr, 8), hi |-> ReadFromDram(m, addr + 8, 8)]
      ELSE [lo |-> Widen(ReadFromDram(m, addr, size)), hi |-> Zero8]

\* write_to_dram<T>(addr, data), sizeof(T) = n: for byte_idx in 0..n-1
\* store(addr + byte_idx, (data >> (byte_idx * 8)) & 0xFF)
RECURSIVE WriteLoop(_, _, _, _, _)
WriteLoop(m, addr, n, byte_idx, data) ==
    IF byte_idx >= n
      THEN m
      ELSE WriteLoop([m EXCEPT ![addr + byte_idx] = data[byte_idx + 1]],
                     addr, n, byte_idx + 1, data)
\* A faulty write_to_dram that stores the most significant byte first
WriteToDramMsbFirst(m, addr, n, data) ==
    [a \in DOMAIN m |->
        IF a \in addr..(addr + n - 1) THEN data[n - (a - addr)] ELSE m[a]]

WriteToDram(m, addr, n, data) == WriteLoop(m, addr, n, 0, data)

\* A faulty write_cb that stores the whole low half for every size below 16
WriteCbWholeLow(m, addr, data, size) ==
    IF size = 16
      THEN WriteToDram(WriteToDram(m, addr, 8, data.lo), addr + 8, 8, data.hi)
      ELSE WriteToDram(m, addr, 8, data.lo)

\* write_cb(addr, data, size) for the sizes its switch has a case for
WriteCb(m, addr, data, size) ==
    IF size = 16
      THEN WriteToDram(WriteToDram(m, addr, 8, data.lo), addr + 8, 8, data.hi)
      ELSE WriteToDram(m, addr, size, data.lo)

\* the single-byte loads read_cb makes and the single-byte stores write_cb
\* makes, in order (write_to_dram's loop visits addr + byte_idx as
\* read_from_dram's does)
ReadCbLoads(addr, size) ==
    IF size = 16 THEN Loads(addr, 8) \o Loads(addr + 8, 8) ELSE Loads(addr, size)
WriteCbStores(addr, size) ==
    IF size = 16 THEN Loads(addr, 8) \o Loads(addr + 8, 8) ELSE Loads(addr, size)

\* DMA request records: id numbers the requests in the order the peer issues
\* them, for is the dispatch whose command the peer was working on
NoReq == [id |-> 0, for |-> 0, addr |-> 0, size |-> 0, data |-> ZeroData]
ReadReqs == {[addr |-> ScenAddr, size |-> z, data |-> ZeroData] : z \in {8, 16}}
WriteData == [lo |-> [k \in 1..8 |-> 160 + k], hi |-> [k \in 1..8 |-> 176 + k]]
WriteReqs == {[addr |-> ScenAddr + 8, size |-> z, data |-> WriteData] : z \in {1, 8}}
\* a second value to write, with top bits set in both halves
HighData == [lo |-> [k \in 1..8 |-> 255 - k], hi |-> [k \in 1..8 |-> 127 + k]]

\* the instruction hook: the general registers a custom instruction may
\* name, the custom instructions the program holds, and the hart before
\* it has executed any of them
AllOnesReg == -1  \* (reg_t)-1, every bit of the register set
Regs == {10, 11, 12}
XprInit == [r \in Regs |-> 100 * r]
NoInsn ==
    [funct |-> 0, xs1 |-> FALSE, xs2 |-> FALSE, xd |-> FALSE,
     rs1 |-> 10, rs2 |-> 11, rd |-> 12]
Insns ==
    {[funct |-> 24, xs1 |-> TRUE, xs2 |-> TRUE, xd |-> TRUE,
      rs1 |-> 10, rs2 |-> 11, rd |-> 12],
     [funct |-> 25, xs1 |-> FALSE, xs2 |-> TRUE, xd |-> FALSE,
      rs1 |-> 10, rs2 |-> 11, rd |-> 12],
     [funct |-> 31, xs1 |-> TRUE, xs2 |-> FALSE, xd |-> TRUE,
      rs1 |-> 10, rs2 |-> 11, rd |-> 10]}
HartInit ==
    [stage |-> "fetch", insn |-> NoInsn, xs1 |-> 0, xs2 |-> 0, args |-> <<>>,
     seq0 |-> 0, installs |-> 0, dispatches |-> 0, pc |-> 0, XPR |-> XprInit,
     emitted |-> {}]

\* a responder that is in no memory callback
NoXfer == [idx |-> 0, val |-> <<>>, from |-> <<>>, seen |-> {}]

\* the single-connection client as its constructor leaves it, with the
\* sockets the process holds for it, the sockets it has created so far and
\* the calls made on it so far
LegacyInit ==
    [sock_fd |-> NoFd, socket_initialized |-> FALSE, open |-> {}, made |-> 0,
     calls |-> <<>>]

\* std::ofstream trace_file before it is opened, with the lines written
\* to the file and the times it has been opened
NoFile == [is_open |-> FALSE, lines |-> <<>>, opens |-> 0]

VARIABLES
    \* SocketClient fields
    cmd_sock_fd, dma_read_sock_fd, dma_write_sock_fd,
    socket_initialized, dma_handler_running,
    \* threads: position, return positions of the calls in progress, the
    \* connection a blocked recv() is bound to, the bool init() returned
    pc, stack, rfd, initRes,
    \* operating system and peer
    fdOpen,       \* sockets this process holds open
    peerUp,       \* connections the peer has accepted and not closed
    cmdIn,        \* units of command requests that reached the peer
    wire,         \* units of command responses still in flight
    cmdOut,       \* units of command responses in the receive buffer
    dmaIn,        \* a DMA request record waits in the connection's buffer
    dmaIssued,    \* DMA requests the peer has issued so far
    dmaAnswered,  \* DMA responses that reached the peer on a connection
    dmaFails,     \* transport failures on DMA connections so far
    \* history
    gen,          \* connect attempts so far
    nSpawn,       \* start_dma_handler() calls that started threads
    spawnGen,     \* the connect attempt that last started threads
    opened,       \* connections the latest connect attempt has opened
    lastClose,    \* the thread whose close() ran last since the last
                  \* connect attempt began, -1: none
    seq,          \* dispatches so far
    wasReady,     \* socket_initialized as the dispatch in progress found it
    prev,         \* the path the dispatch before it returned by
    tries,        \* connect attempts of the dispatch in progress
    sent,         \* the dispatch in progress has sent its request
    ansRid,       \* the dispatch whose request the peer answered last
    ansVal,       \* the result the peer put in that answer
    gotRid,       \* the dispatches whose response units the last recv() took
    ret,          \* value the last dispatch returned
    how,          \* the path it returned by; "running" until then
    \* simulated memory and the DMA records in detail
    mem,          \* the byte at each address of the simulated memory
    dma_cb,       \* the dispatch whose callback pair is installed, 0: none
    dmaReq,       \* the request record that waits in a DMA connection's buffer
    svcLog,       \* per responder thread: what it received, called and sent
    rebound,      \* the responder threads that were servicing a request when
                  \* the callback pair was last installed
    orderly,      \* the peer had the response to every DMA request it issued
                  \* when it last answered a command
    access,       \* the calls of the memory callbacks made one after another
                  \* on their own, each with its arguments and what it did
    hart,         \* the instruction hook: the custom instruction it is
                  \* executing, program counter and destination register
    xfer,         \* per responder thread: how far its memory callback has
                  \* got, byte by byte, and the value read so far
    legacy,       \* the single-connection SocketClient and its socket
    \* SignalCollector fields
    enabled, trace_enabled, trace_file, signal_probes, signal_metadata,
    signal_history, max_history_size, current_cycle,
    returned      \* what the last SignalCollector call returning a bool returned

session == <<cmd_sock_fd, dma_read_sock_fd, dma_write_sock_fd,
             socket_initialized, dma_handler_running>>
threads == <<pc, stack, rfd, initRes>>
net == <<fdOpen, peerUp, cmdIn, wire, cmdOut, dmaIn, dmaIssued, dmaAnswered,
        dmaFails>>
call == <<wasReady, prev, tries, sent, ansRid, ansVal, gotRid, ret, how>>
hist == <<gen, opened, nSpawn, spawnGen, lastClose, seq, call>>
collector == <<enabled, trace_enabled, trace_file, signal_probes,
               signal_metadata, signal_history, max_history_size,
               current_cycle, returned>>
ext == <<xfer, legacy, collector>>
aux == <<mem, dma_cb, dmaReq, svcLog, rebound, orderly, access, hart, ext>>
vars == <<session, threads, net, hist, aux>>

\* the responders are in no callback; SocketClient::SocketClient() of the
\* single-connection client; SignalCollector::SignalCollector(name)
ExtInit ==
    /\ xfer = [t \in Loops |-> NoXfer]
    /\ legacy = LegacyInit
    /\ enabled = FALSE
    /\ trace_enabled = FALSE
    /\ trace_file = NoFile
    /\ signal_probes = <<>>
    /\ signal_metadata = <<>>
    /\ signal_history = <<>>
    /\ max_history_size = 0
    /\ current_cycle = 0
    /\ returned = TRUE

\* SocketClient::SocketClient(): no connection is opened
Init ==
    /\ cmd_sock_fd = NoFd
    /\ dma_read_sock_fd = NoFd
    /\ dma_write_sock_fd = NoFd
    /\ socket_initialized = FALSE
    /\ dma_handler_running = FALSE
    /\ pc = [t \in Threads |-> IF t = Main THEN "idle" ELSE "unborn"]
    /\ stack = [t \in Threads |-> <<>>]
    /\ rfd = [t \in Threads |-> NoFd]
    /\ initRes = FALSE
    /\ fdOpen = {}
    /\ peerUp = {}
    /\ cmdIn = [f \in Fds |-> <<>>]
    /\ wire = [f \in Fds |-> <<>>]
    /\ cmdOut = [f \in Fds |-> <<>>]
    /\ dmaIn = [f \in Fds |-> FALSE]
    /\ dmaIssued = 0
    /\ dmaAnswered = [f \in Fds |-> 0]
    /\ dmaFails = 0
    /\ gen = 0
    /\ nSpawn = 0
    /\ spawnGen = 0
    /\ opened = 0
    /\ lastClose = -1
    /\ seq = 0
    /\ wasReady = FALSE
    /\ prev = "none"
    /\ tries = 0
    /\ sent = FALSE
    /\ ansRid = 0
    /\ ansVal = 0
    /\ gotRid = {}
    /\ ret = 0
    /\ how = "none"
    /\ mem = MemImage(0)
    /\ dma_cb = 0
    /\ dmaReq = [f \in Fds |-> NoReq]
    /\ svcLog = [t \in Loops |-> <<>>]
    /\ rebound = {}
    /\ orderly = TRUE
    /\ access = <<>>
    /\ hart = HartInit
    /\ ExtInit

\* ------------------------------------------------------- call and return
Goto(t, l) == pc' = [pc EXCEPT ![t] = l]
Call(t, l, back) ==
    /\ pc' = [pc EXCEPT ![t] = l]
    /\ stack' = [stack EXCEPT ![t] = <<back>> \o @]
Return(t) ==
    /\ pc' = [pc EXCEPT ![t] = Head(stack[t])]
    /\ stack' = [stack EXCEPT ![t] = Tail(@)]

\* ------------------------------------------------------- operating system
\* ::close(fd) for the handles in S: the sockets are released and what was
\* buffered on them is gone; closing an invalid handle does nothing.  A
\* recv() another thread is blocked in on such a socket can then only fail.
OsClose(S) ==
    /\ fdOpen' = fdOpen \ S
    /\ peerUp' = peerUp \ S
    /\ cmdIn' = [f \in Fds |-> IF f \in S THEN <<>> ELSE cmdIn[f]]
    /\ wire' = [f \in Fds |-> IF f \in S THEN <<>> ELSE wire[f]]
    /\ cmdOut' = [f \in Fds |-> IF f \in S THEN <<>> ELSE cmdOut[f]]
    /\ dmaIn' = [f \in Fds |-> IF f \in S THEN FALSE ELSE dmaIn[f]]
    /\ UNCHANGED <<dmaIssued, dmaFails>>
    /\ dmaAnswered' = [f \in Fds |-> IF f \in S THEN 0 ELSE dmaAnswered[f]]

\* socket() gives the new socket fd and connect(fd, ...) succeeds: the peer
\* accepted
OsOpen(fd) ==
    /\ fdOpen' = fdOpen \cup {fd}
    /\ peerUp' = peerUp \cup {fd}
    /\ UNCHANGED <<cmdIn, wire, cmdOut, dmaIn, dmaIssued, dmaAnswered, dmaFails>>

\* A faulty close() that leaves the DMA-write connection open and its
\* handle valid
CloseLeavesDmaWrite(t) ==
    /\ pc[t] = "close"
    /\ dma_handler_running' = FALSE
    /\ OsClose({cmd_sock_fd, dma_read_sock_fd})
    /\ cmd_sock_fd' = NoFd
    /\ dma_read_sock_fd' = NoFd
    /\ socket_initialized' = FALSE
    /\ lastClose' = t
    /\ Return(t)
    /\ UNCHANGED <<dma_write_sock_fd, rfd, initRes, gen, opened, nSpawn,
                   spawnGen, seq, call>>
    /\ UNCHANGED aux

\* A faulty close() that closes the connections and leaves their handles
\* as they were
CloseKeepsHandles(t) ==
    /\ pc[t] = "close"
    /\ dma_handler_running' = FALSE
    /\ OsClose({cmd_sock_fd, dma_read_sock_fd, dma_write_sock_fd})
    /\ socket_initialized' = FALSE
    /\ lastClose' = t
    /\ Return(t)
    /\ UNCHANGED <<cmd_sock_fd, dma_read_sock_fd, dma_write_sock_fd, rfd,
                   initRes, gen, opened, nSpawn, spawnGen, seq, call>>
    /\ UNCHANGED aux

\* ------------------------------------------------------ SocketClient::close
\* close(): dma_handler_running = false; each valid handle is closed and
\* set to -1; socket_initialized = false.  The function makes no call that
\* blocks, so it is one step of the thread that runs it.
Close(t) ==
    /\ pc[t] = "close"
    /\ dma_handler_running' = FALSE
    /\ OsClose({cmd_sock_fd, dma_read_sock_fd, dma_write_sock_fd})
    /\ cmd_sock_fd' = NoFd
    /\ dma_read_sock_fd' = NoFd
    /\ dma_write_sock_fd' = NoFd
    /\ socket_initialized' = FALSE
    /\ lastClose' = t
    /\ Return(t)
    /\ UNCHANGED <<rfd, initRes, gen, opened, nSpawn, spawnGen, seq, call>>
    /\ UNCHANGED aux

\* ------------------------------------------------------- SocketClient::init
\* init() returns r to its caller
InitReturn(r) ==
    /\ initRes' = r
    /\ Return(Main)

\* A faulty init() without the test of socket_initialized: called on a
\* ready Session it opens a command connection again
InitAlreadyReconnect ==
    /\ pc[Main] = "init"
    /\ socket_initialized
    /\ gen < MaxGen
    /\ gen' = gen + 1
    /\ tries' = tries + 1
    /\ lastClose' = -1
    /\ cmd_sock_fd' = CmdFd(gen + 1)
    /\ OsOpen(CmdFd(gen + 1))
    /\ opened' = 1
    /\ Goto(Main, "init_rd")
    /\ UNCHANGED <<stack, initRes>>
    /\ UNCHANGED <<dma_read_sock_fd, dma_write_sock_fd, socket_initialized,
                   dma_handler_running, rfd, nSpawn, spawnGen, seq,
                   wasReady, prev, sent, ansRid, ansVal, gotRid, ret, how>>
    /\ UNCHANGED aux

\* if (socket_initialized) return true;
InitAlready ==
    /\ pc[Main] = "init"
    /\ socket_initialized
    /\ InitReturn(TRUE)
    /\ UNCHANGED <<session, rfd, net, hist>>
    /\ UNCHANGED aux

\* The three connections are opened one after the other; a thread can be
\* held up in each connect(), so each is a step of its own.
\* cmd_sock_fd = socket(...); if (cmd_sock_fd < 0) return false;
\* if (connect(cmd_sock_fd, ...) < 0) { ::close(cmd_sock_fd); cmd_sock_fd = -1; return false; }
InitCmd ==
    /\ pc[Main] = "init"
    /\ ~socket_initialized
    /\ gen < MaxGen
    /\ gen' = gen + 1
    /\ tries' = tries + 1
    /\ lastClose' = -1
    /\ \/ /\ cmd_sock_fd' = CmdFd(gen + 1)
          /\ OsOpen(CmdFd(gen + 1))
          /\ opened' = 1
          /\ Goto(Main, "init_rd")
          /\ UNCHANGED <<stack, initRes>>
       \/ /\ cmd_sock_fd' = NoFd
          /\ opened' = 0
          /\ InitReturn(FALSE)
          /\ UNCHANGED net
    /\ UNCHANGED <<dma_read_sock_fd, dma_write_sock_fd, socket_initialized,
                   dma_handler_running, rfd, nSpawn, spawnGen, seq,
                   wasReady, prev, sent, ansRid, ansVal, gotRid, ret, how>>
    /\ UNCHANGED aux

\* dma_read_sock_fd = socket(...); connect(dma_read_sock_fd, ...); if either
\* fails the handles are closed and set to -1 and init() returns false
\* (a failed socket() leaves -1 in dma_read_sock_fd itself)
InitRd ==
    /\ pc[Main] = "init_rd"
    /\ \/ /\ dma_read_sock_fd' = RdFd(gen)
          /\ OsOpen(RdFd(gen))
          /\ opened' = opened + 1
          /\ Goto(Main, "init_wr")
          /\ UNCHANGED <<cmd_sock_fd, stack, initRes>>
       \/ /\ OsClose({cmd_sock_fd})
          /\ cmd_sock_fd' = NoFd
          /\ dma_read_sock_fd' = NoFd
          /\ InitReturn(FALSE)
          /\ UNCHANGED opened
    /\ UNCHANGED <<dma_write_sock_fd, socket_initialized, dma_handler_running,
                   rfd, gen, nSpawn, spawnGen, lastClose, seq, call>>
    /\ UNCHANGED aux

\* A faulty rollback of the third connect that closes the command
\* connection and forgets the DMA-read connection
InitWrFailLeak ==
    /\ pc[Main] = "init_wr"
    /\ OsClose({cmd_sock_fd})
    /\ cmd_sock_fd' = NoFd
    /\ dma_write_sock_fd' = NoFd
    /\ InitReturn(FALSE)
    /\ UNCHANGED <<dma_read_sock_fd, socket_initialized, dma_handler_running,
                   rfd, hist>>
    /\ UNCHANGED aux

\* dma_write_sock_fd = socket(...) or connect(dma_write_sock_fd, ...) fails:
\* the handles are closed and set to -1 and init() returns false
InitWrFail ==
    /\ pc[Main] = "init_wr"
    /\ OsClose({cmd_sock_fd, dma_read_sock_fd})
    /\ cmd_sock_fd' = NoFd
    /\ dma_read_sock_fd' = NoFd
    /\ dma_write_sock_fd' = NoFd
    /\ InitReturn(FALSE)
    /\ UNCHANGED <<socket_initialized, dma_handler_running, rfd, hist>>
    /\ UNCHANGED aux

\* dma_write_sock_fd = socket(...); connect(dma_write_sock_fd, ...) succeeds;
\* socket_initialized = true;
InitWr ==
    /\ pc[Main] = "init_wr"
    /\ dma_write_sock_fd' = WrFd(gen)
    /\ OsOpen(WrFd(gen))
    /\ opened' = opened + 1
    /\ socket_initialized' = TRUE
    /\ Goto(Main, "start_dma_handler")
    /\ UNCHANGED <<cmd_sock_fd, dma_read_sock_fd, dma_handler_running,
                   stack, initRes, rfd, gen, nSpawn, spawnGen, lastClose, seq,
                   call>>
    /\ UNCHANGED aux

\* start_dma_handler(): if (dma_handler_running) return; else the flag is
\* set and the two detached threads are started; then init() returns true
StartDmaHandler ==
    /\ pc[Main] = "start_dma_handler"
    /\ IF dma_handler_running
         THEN /\ InitReturn(TRUE)
              /\ UNCHANGED <<dma_handler_running, nSpawn, spawnGen>>
         ELSE /\ dma_handler_running' = TRUE
              /\ nSpawn' = nSpawn + 1
              /\ spawnGen' = gen
              /\ initRes' = TRUE
              /\ pc' = [pc EXCEPT ![Main] = Head(stack[Main]),
                                  ![RdLoop(nSpawn + 1)] = "loop",
                                  ![WrLoop(nSpawn + 1)] = "loop"]
              /\ stack' = [stack EXCEPT ![Main] = Tail(@)]
    /\ UNCHANGED <<cmd_sock_fd, dma_read_sock_fd, dma_write_sock_fd,
                   socket_initialized, rfd, net, gen, opened, lastClose, seq,
                   call>>
    /\ UNCHANGED aux

\* ----------------------------------------------- SocketClient::send_and_wait
\* send_and_wait() returns v by the path named
Finish(v, path) ==
    /\ ret' = v
    /\ how' = path
    /\ Goto(Main, "idle")

\* if (!socket_initialized) { if (!init()) return 0; }
SawEnter ==
    /\ pc[Main] = "idle"
    /\ seq < MaxSeq
    /\ seq' = seq + 1
    /\ wasReady' = socket_initialized
    /\ prev' = how
    /\ tries' = 0
    /\ sent' = FALSE
    /\ ansRid' = 0
    /\ ansVal' = 0
    /\ gotRid' = {}
    /\ ret' = 0
    /\ how' = "running"
    /\ IF socket_initialized
         THEN Goto(Main, "send_check") /\ UNCHANGED stack
         ELSE Call(Main, "init", "saw_init_ret")
    /\ UNCHANGED <<session, rfd, initRes, net, gen, opened, nSpawn, spawnGen, lastClose>>
    /\ UNCHANGED aux

\* A faulty send_and_wait() that calls init() a second time when the first
\* call failed
SawInitRetRetry ==
    /\ pc[Main] = "saw_init_ret"
    /\ IF initRes
         THEN Goto(Main, "send_check") /\ UNCHANGED <<stack, ret, how>>
         ELSE IF tries < 2
                THEN Call(Main, "init", "saw_init_ret") /\ UNCHANGED <<ret, how>>
                ELSE Finish(0, "connect_failed") /\ UNCHANGED stack
    /\ UNCHANGED <<session, rfd, initRes, net, gen, opened, nSpawn, spawnGen,
                   lastClose, seq, wasReady, prev, tries, sent, ansRid, ansVal,
                   gotRid>>
    /\ UNCHANGED aux

SawInitRet ==
    /\ pc[Main] = "saw_init_ret"
    /\ IF initRes
         THEN Goto(Main, "send_check") /\ UNCHANGED <<ret, how>>
         ELSE Finish(0, "connect_failed")
    /\ UNCHANGED <<session, stack, rfd, initRes, net, gen, opened, nSpawn, spawnGen,
                   lastClose, seq, wasReady, prev, tries, sent, ansRid, ansVal,
                   gotRid>>
    /\ UNCHANGED aux

\* send_cmd_request(): if (cmd_sock_fd < 0) return false;
SendCheck ==
    /\ pc[Main] = "send_check"
    /\ IF cmd_sock_fd < 0
         THEN Finish(0, "send_not_connected")
         ELSE Goto(Main, "send_call") /\ UNCHANGED <<ret, how>>
    /\ UNCHANGED <<session, stack, rfd, initRes, net, gen, opened, nSpawn, spawnGen,
                   lastClose, seq, wasReady, prev, tries, sent, ansRid, ansVal,
                   gotRid>>
    /\ UNCHANGED aux

\* sent = send(cmd_sock_fd, &req, sizeof(req), 0) transmits n units, n >= 1;
\* the only test is (sent < 0), so the call goes on to the response
SendSome(n) ==
    /\ pc[Main] = "send_call"
    /\ cmd_sock_fd \in fdOpen
    /\ cmdIn' = [cmdIn EXCEPT ![cmd_sock_fd] = @ \o Take(ReqUnits(seq), n)]
    /\ sent' = TRUE
    /\ Goto(Main, "recv_check")
    /\ UNCHANGED <<session, stack, rfd, initRes,
                   fdOpen, peerUp, wire, cmdOut, dmaIn, dmaIssued, dmaAnswered,
                   gen, opened, nSpawn, spawnGen, lastClose, seq, wasReady, prev, tries,
                   ansRid, ansVal, gotRid, ret, how, dmaFails>>
    /\ UNCHANGED aux

\* send() returns -1: close(); return false;
SendFail ==
    /\ pc[Main] = "send_call"
    /\ how' = "send_error"
    /\ Call(Main, "close", "saw_failed")
    /\ UNCHANGED <<session, rfd, initRes, net, gen, opened, nSpawn, spawnGen, lastClose,
                   seq, wasReady, prev, tries, sent, ansRid, ansVal, gotRid, ret>>
    /\ UNCHANGED aux

\* A faulty send_and_wait() that reports a failure as (uint64_t)-1
SawFailedMinusOne ==
    /\ pc[Main] = "saw_failed"
    /\ Finish(AllOnes, how)
    /\ UNCHANGED <<session, stack, rfd, initRes, net, gen, opened, nSpawn,
                   spawnGen, lastClose, seq, wasReady, prev, tries, sent,
                   ansRid, ansVal, gotRid>>
    /\ UNCHANGED aux

\* send_cmd_request() or recv_cmd_response() returned false after close()
SawFailed ==
    /\ pc[Main] = "saw_failed"
    /\ Finish(0, how)
    /\ UNCHANGED <<session, stack, rfd, initRes, net, gen, opened, nSpawn, spawnGen,
                   lastClose, seq, wasReady, prev, tries, sent, ansRid, ansVal,
                   gotRid>>
    /\ UNCHANGED aux

\* recv_cmd_response(): if (cmd_sock_fd < 0) return false;
RecvCheck ==
    /\ pc[Main] = "recv_check"
    /\ IF cmd_sock_fd < 0
         THEN Finish(0, "recv_not_connected")
         ELSE Goto(Main, "recv_call") /\ UNCHANGED <<ret, how>>
    /\ UNCHANGED <<session, stack, rfd, initRes, net, gen, opened, nSpawn, spawnGen,
                   lastClose, seq, wasReady, prev, tries, sent, ansRid, ansVal,
                   gotRid>>
    /\ UNCHANGED aux

\* recv(cmd_sock_fd, &resp, sizeof(resp), 0) is entered: the call blocks on
\* the connection the handle names now; an invalid handle fails at once
RecvCall ==
    /\ pc[Main] = "recv_call"
    /\ IF cmd_sock_fd < 0
         THEN /\ Call(Main, "close", "saw_failed")
              /\ how' = "error"
              /\ UNCHANGED rfd
         ELSE /\ rfd' = [rfd EXCEPT ![Main] = cmd_sock_fd]
              /\ Goto(Main, "recv_wait")
              /\ UNCHANGED <<stack, how>>
    /\ UNCHANGED <<session, initRes, net, gen, opened, nSpawn, spawnGen, lastClose,
                   seq, wasReady, prev, tries, sent, ansRid, ansVal, gotRid, ret>>
    /\ UNCHANGED aux

\* A faulty recv_cmd_response() without the test for a short read: whatever
\* arrived is taken for the response, the units that did not arrive read 0
RecvFullNoLengthTest ==
    /\ pc[Main] = "recv_wait"
    /\ Len(cmdOut[rfd[Main]]) >= 1
    /\ cmdOut' = [cmdOut EXCEPT ![rfd[Main]] = Drop(@, Min(Len(@), RecLen))]
    /\ gotRid' = {cmdOut[rfd[Main]][k][1] :
                     k \in 1..Min(Len(cmdOut[rfd[Main]]), RecLen)}
    /\ Finish(Value(Take(cmdOut[rfd[Main]], Min(Len(cmdOut[rfd[Main]]), RecLen))),
              "ok")
    /\ rfd' = [rfd EXCEPT ![Main] = NoFd]
    /\ UNCHANGED <<session, stack, initRes,
                   fdOpen, peerUp, cmdIn, wire, dmaIn, dmaIssued, dmaAnswered,
                   gen, opened, nSpawn, spawnGen, lastClose, seq, wasReady,
                   prev, tries, sent, ansRid, ansVal, dmaFails>>
    /\ UNCHANGED aux

\* recv() returns sizeof(resp) units: return cmd_resp.result;
RecvFull ==
    /\ pc[Main] = "recv_wait"
    /\ Len(cmdOut[rfd[Main]]) >= RecLen
    /\ cmdOut' = [cmdOut EXCEPT ![rfd[Main]] = Drop(@, RecLen)]
    /\ gotRid' = {cmdOut[rfd[Main]][k][1] : k \in 1..RecLen}
    /\ Finish(Value(Take(cmdOut[rfd[Main]], RecLen)), "ok")
    /\ rfd' = [rfd EXCEPT ![Main] = NoFd]
    /\ UNCHANGED <<session, stack, initRes,
                   fdOpen, peerUp, cmdIn, wire, dmaIn, dmaIssued, dmaAnswered,
                   gen, opened, nSpawn, spawnGen, lastClose, seq, wasReady, prev, tries,
                   sent, ansRid, ansVal, dmaFails>>
    /\ UNCHANGED aux

\* what recv_cmd_response() does with a receive that is not a whole record
RecvFailed(path) ==
    /\ how' = path
    /\ Call(Main, "close", "saw_failed")
    /\ rfd' = [rfd EXCEPT ![Main] = NoFd]
    /\ UNCHANGED <<session, initRes, gen, opened, nSpawn, spawnGen, lastClose, seq,
                   wasReady, prev, tries, sent, ansRid, ansVal, gotRid, ret>>

\* A faulty recv_cmd_response() that returns false and leaves the Session
\* as it is
RecvFailedNoClose(path) ==
    /\ ret' = 0
    /\ how' = path
    /\ Goto(Main, "idle")
    /\ rfd' = [rfd EXCEPT ![Main] = NoFd]
    /\ UNCHANGED <<session, stack, initRes, gen, opened, nSpawn, spawnGen,
                   lastClose, seq, wasReady, prev, tries, sent, ansRid, ansVal,
                   gotRid>>

\* ... on a short read
RecvShortNoClose ==
    /\ pc[Main] = "recv_wait"
    /\ Len(cmdOut[rfd[Main]]) \in 1..(RecLen - 1)
    /\ cmdOut' = [cmdOut EXCEPT ![rfd[Main]] = <<>>]
    /\ RecvFailedNoClose("short")
    /\ UNCHANGED <<fdOpen, peerUp, cmdIn, wire, dmaIn, dmaIssued, dmaAnswered,
                   dmaFails>>
    /\ UNCHANGED aux

\* ... when the peer closed
RecvEofNoClose ==
    /\ pc[Main] = "recv_wait"
    /\ rfd[Main] \in fdOpen \ peerUp
    /\ cmdOut[rfd[Main]] = <<>>
    /\ wire[rfd[Main]] = <<>>
    /\ RecvFailedNoClose("eof")
    /\ UNCHANGED net
    /\ UNCHANGED aux

\* ... when recv() returned -1
RecvErrorNoClose ==
    /\ pc[Main] = "recv_wait"
    /\ RecvFailedNoClose("error")
    /\ UNCHANGED net
    /\ UNCHANGED aux

\* recv() returns 0 < n < sizeof(resp) units: close(); return false;
RecvShort ==
    /\ pc[Main] = "recv_wait"
    /\ Len(cmdOut[rfd[Main]]) \in 1..(RecLen - 1)
    /\ cmdOut' = [cmdOut EXCEPT ![rfd[Main]] = <<>>]
    /\ RecvFailed("short")
    /\ UNCHANGED <<fdOpen, peerUp, cmdIn, wire, dmaIn, dmaIssued, dmaAnswered, dmaFails>>
    /\ UNCHANGED aux

\* recv() returns 0, the peer closed and nothing is left to read:
\* close(); return false;
RecvEof ==
    /\ pc[Main] = "recv_wait"
    /\ rfd[Main] \in fdOpen \ peerUp
    /\ cmdOut[rfd[Main]] = <<>>
    /\ wire[rfd[Main]] = <<>>
    /\ RecvFailed("eof")
    /\ UNCHANGED net
    /\ UNCHANGED aux

\* recv() returns -1: close(); return false;
RecvError ==
    /\ pc[Main] = "recv_wait"
    /\ RecvFailed("error")
    /\ UNCHANGED net
    /\ UNCHANGED aux

\* ------------------------------------------------ the caller's other calls
\* what the history keeps of the last dispatch is cleared
Forget ==
    /\ wasReady' = FALSE
    /\ prev' = "none"
    /\ tries' = 0
    /\ sent' = FALSE
    /\ ansRid' = 0
    /\ ansVal' = 0
    /\ gotRid' = {}
    /\ ret' = 0
    /\ how' = "none"

\* the caller calls init() itself
CallInit ==
    /\ pc[Main] = "idle"
    /\ Forget
    /\ Call(Main, "init", "init_done")
    /\ UNCHANGED <<session, rfd, initRes, net, gen, opened, nSpawn, spawnGen,
                   lastClose, seq>>
    /\ UNCHANGED aux

InitDone ==
    /\ pc[Main] = "init_done"
    /\ Goto(Main, "idle")
    /\ UNCHANGED <<session, stack, rfd, initRes, net, hist>>
    /\ UNCHANGED aux

\* the caller calls close() itself
CallClose ==
    /\ pc[Main] = "idle"
    /\ Forget
    /\ Call(Main, "close", "idle")
    /\ UNCHANGED <<session, rfd, initRes, net, gen, opened, nSpawn, spawnGen,
                   lastClose, seq>>
    /\ UNCHANGED aux

\* ------------------------------------------------------ DMA responder threads
\* the handle a loop reads: dma_read_sock_fd or dma_write_sock_fd
LoopFd(t) == IF IsRdLoop(t) THEN dma_read_sock_fd ELSE dma_write_sock_fd

\* recv_dma_read_request() / recv_dma_write_request() enter recv() on the
\* connection the handle names now
DmaRecvCall(t) ==
    /\ rfd' = [rfd EXCEPT ![t] = LoopFd(t)]
    /\ Goto(t, "dma_wait")

\* while (dma_handler_running && socket_initialized && dma_*_sock_fd >= 0)
LoopWhile(t) ==
    /\ pc[t] = "loop"
    /\ IF dma_handler_running /\ socket_initialized /\ LoopFd(t) >= 0
         THEN DmaRecvCall(t)
         ELSE Goto(t, "exited") /\ UNCHANGED rfd
    /\ UNCHANGED <<session, stack, initRes, net, hist>>
    /\ UNCHANGED aux

\* recv() returns a complete request record: the loop goes on to service it
DmaRecvReq(t) ==
    /\ pc[t] = "dma_wait"
    /\ rfd[t] \in fdOpen
    /\ dmaIn[rfd[t]]
    /\ dmaIn' = [dmaIn EXCEPT ![rfd[t]] = FALSE]
    /\ rfd' = [rfd EXCEPT ![t] = NoFd]
    /\ Goto(t, "dma_service")
    /\ UNCHANGED <<session, stack, initRes,
                   fdOpen, peerUp, cmdIn, wire, cmdOut, dmaIssued, dmaAnswered,
                   hist, dmaFails>>
    /\ UNCHANGED aux

\* what a failed receive or send of a DMA record does before the loop breaks
DmaFailed(t) == Call(t, "close", "exited")

\* A faulty responder loop that goes round again after a failed receive
DmaRecvFailRetry(t) ==
    /\ pc[t] = "dma_wait"
    /\ dmaFails < MaxDmaFail
    /\ dmaFails' = dmaFails + 1
    /\ rfd' = [rfd EXCEPT ![t] = NoFd]
    /\ Goto(t, "loop")
    /\ UNCHANGED <<session, stack, initRes, fdOpen, peerUp, cmdIn, wire, cmdOut,
                   dmaIn, dmaIssued, dmaAnswered, hist>>
    /\ UNCHANGED aux

\* recv() returns an incomplete record, 0 (the peer closed) or -1
DmaRecvFail(t) ==
    /\ pc[t] = "dma_wait"
    /\ dmaFails < MaxDmaFail
    /\ dmaFails' = dmaFails + 1
    /\ rfd' = [rfd EXCEPT ![t] = NoFd]
    /\ DmaFailed(t)
    /\ UNCHANGED <<session, initRes, fdOpen, peerUp, cmdIn, wire, cmdOut,
                   dmaIn, dmaIssued, dmaAnswered, hist>>
    /\ UNCHANGED aux

\* handle_dma_read() / handle_dma_write(), the response record is built and
\* send_dma_*_response() sends it on the connection the handle names now
DmaRespond(t) ==
    /\ pc[t] = "dma_service"
    /\ LoopFd(t) \in fdOpen
    /\ dmaAnswered' = [dmaAnswered EXCEPT ![LoopFd(t)] = @ + 1]
    /\ Goto(t, "loop")
    /\ UNCHANGED <<session, stack, rfd, initRes,
                   fdOpen, peerUp, cmdIn, wire, cmdOut, dmaIn, dmaIssued,
                   hist, dmaFails>>
    /\ UNCHANGED aux

\* the response cannot be sent, because the handle is invalid by now or
\* because the transport fails: if (!send_dma_*_response(...)) break;
DmaRespondFail(t) ==
    /\ pc[t] = "dma_service"
    /\ IF LoopFd(t) \in fdOpen
         THEN dmaFails < MaxDmaFail /\ dmaFails' = dmaFails + 1
         ELSE UNCHANGED dmaFails
    /\ DmaFailed(t)
    /\ UNCHANGED <<session, rfd, initRes, fdOpen, peerUp, cmdIn, wire, cmdOut,
                   dmaIn, dmaIssued, dmaAnswered, hist>>
    /\ UNCHANGED aux

\* ------------------------------------------------ the accelerator and the wire
\* the request the peer reads from the units us: the dispatch they all belong
\* to, or 0 when they are not one whole request
ReadReq(us) == IF us = ReqUnits(us[1][1]) THEN us[1][1] ELSE 0

\* the peer takes one request record off the command connection and answers
PeerReply(f, v) ==
    /\ f \in peerUp
    /\ Len(cmdIn[f]) >= RecLen
    /\ ansRid' = ReadReq(Take(cmdIn[f], RecLen))
    /\ ansVal' = v
    /\ wire' = [wire EXCEPT ![f] = @ \o RespUnits(ansRid', v)]
    /\ cmdIn' = [cmdIn EXCEPT ![f] = Drop(@, RecLen)]
    /\ UNCHANGED <<session, threads,
                   fdOpen, peerUp, cmdOut, dmaIn, dmaIssued, dmaAnswered,
                   gen, opened, nSpawn, spawnGen, lastClose, seq, wasReady, prev, tries,
                   sent, gotRid, ret, how, dmaFails>>
    /\ UNCHANGED aux

\* n more units of a response reach the receive buffer of the connection
\* the caller is blocked on (earlier arrivals make no difference to it)
Deliver(f, n) ==
    /\ pc[Main] = "recv_wait"
    /\ rfd[Main] = f
    /\ n \in 1..Len(wire[f])
    /\ cmdOut' = [cmdOut EXCEPT ![f] = @ \o Take(wire[f], n)]
    /\ wire' = [wire EXCEPT ![f] = Drop(@, n)]
    /\ UNCHANGED <<session, threads,
                   fdOpen, peerUp, cmdIn, dmaIn, dmaIssued, dmaAnswered, hist, dmaFails>>
    /\ UNCHANGED aux

\* the peer, holding a command it has not answered yet, issues a DMA
\* request on one of the two DMA connections that came with it
PeerDmaReq(f) ==
    /\ f \in peerUp
    /\ f % 3 # 1
    /\ CmdOf(f) \in peerUp
    /\ Len(cmdIn[CmdOf(f)]) >= RecLen
    /\ ~dmaIn[f]
    /\ dmaIssued < MaxDma
    /\ dmaIn' = [dmaIn EXCEPT ![f] = TRUE]
    /\ dmaIssued' = dmaIssued + 1
    /\ UNCHANGED <<session, threads,
                   fdOpen, peerUp, cmdIn, wire, cmdOut, dmaAnswered, hist, dmaFails>>
    /\ UNCHANGED aux

\* the peer closes the command connection the caller is blocked on (a DMA
\* connection the peer closed is a receive that fails, DmaRecvFail)
PeerClose(f) ==
    /\ f \in peerUp
    /\ f % 3 = 1
    /\ pc[Main] = "recv_wait"
    /\ rfd[Main] = f
    /\ peerUp' = peerUp \ {f}
    /\ UNCHANGED <<session, threads,
                   fdOpen, cmdIn, wire, cmdOut, dmaIn, dmaIssued, dmaAnswered,
                   hist, dmaFails>>
    /\ UNCHANGED aux

\* ----------------------------------------------------------- specification
Connect ==
    \/ InitAlready \/ InitCmd \/ InitRd \/ InitWrFail \/ InitWr
    \/ StartDmaHandler

Dispatch ==
    \/ SawEnter \/ SawInitRet \/ SendCheck \/ (\E n \in 1..RecLen : SendSome(n))
    \/ SendFail \/ SawFailed \/ RecvCheck \/ RecvCall
    \/ RecvFull \/ RecvShort \/ RecvEof \/ RecvError

DmaLoop(t) ==
    \/ LoopWhile(t) \/ DmaRecvReq(t) \/ DmaRecvFail(t)
    \/ DmaRespond(t) \/ DmaRespondFail(t)

Peer ==
    \/ \E f \in Fds, v \in Results : PeerReply(f, v)
    \/ \E f \in Fds, n \in 1..RecLen : Deliver(f, n)
    \/ \E f \in Fds : PeerDmaReq(f)
    \/ \E f \in Fds : PeerClose(f)

Next ==
    \/ CallInit \/ InitDone \/ CallClose
    \/ Connect
    \/ Dispatch
    \/ \E t \in Threads : Close(t)
    \/ \E t \in Loops : DmaLoop(t)
    \/ Peer

Spec == Init /\ [][Next]_vars

\* ===================================== DMA servicing during a dispatch, in detail
\* The same client with the contents of the DMA records, the callback pair
\* and the simulated memory, on transports that carry every record whole.

\* one event of a responder thread
Event(e, r, ep, d, f) == [ev |-> e, req |-> r, epoch |-> ep, out |-> d, conn |-> f]

\* the request a responder thread is servicing: the one it received last
Current(t) == svcLog[t][Len(svcLog[t])].req

\* every DMA request the peer issued has had its response
AllAnswered ==
    \A t \in Loops : svcLog[t] = <<>> \/ svcLog[t][Len(svcLog[t])].ev = "resp"

DmaInit ==
    /\ cmd_sock_fd = NoFd
    /\ dma_read_sock_fd = NoFd
    /\ dma_write_sock_fd = NoFd
    /\ socket_initialized = FALSE
    /\ dma_handler_running = FALSE
    /\ pc = [t \in Threads |-> IF t = Main THEN "idle" ELSE "unborn"]
    /\ stack = [t \in Threads |-> <<>>]
    /\ rfd = [t \in Threads |-> NoFd]
    /\ initRes = FALSE
    /\ fdOpen = {}
    /\ peerUp = {}
    /\ cmdIn = [f \in Fds |-> <<>>]
    /\ wire = [f \in Fds |-> <<>>]
    /\ cmdOut = [f \in Fds |-> <<>>]
    /\ dmaIn = [f \in Fds |-> FALSE]
    /\ dmaIssued = 0
    /\ dmaAnswered = [f \in Fds |-> 0]
    /\ dmaFails = 0
    /\ gen = 0
    /\ opened = 0
    /\ nSpawn = 0
    /\ spawnGen = 0
    /\ lastClose = -1
    /\ seq = 0
    /\ wasReady = FALSE
    /\ prev = "none"
    /\ tries = 0
    /\ sent = FALSE
    /\ ansRid = 0
    /\ ansVal = 0
    /\ gotRid = {}
    /\ ret = 0
    /\ how = "none"
    /\ mem \in MemImages
    /\ dma_cb = 0
    /\ dmaReq = [f \in Fds |-> NoReq]
    /\ svcLog = [t \in Loops |-> <<>>]
    /\ rebound = {}
    /\ orderly = TRUE
    /\ access = <<>>
    /\ hart = HartInit
    /\ ExtInit

\* A faulty set_dma_callbacks that waits until no responder is servicing
CustomFnInstallQuiet ==
    /\ pc[Main] = "idle"
    /\ seq < MaxSeq
    /\ dma_cb # seq + 1
    /\ \A t \in Loops : pc[t] # "dma_service"
    /\ dma_cb' = seq + 1
    /\ rebound' = {t \in Loops : pc[t] = "dma_service"}
    /\ UNCHANGED <<session, threads, net, hist, mem, dmaReq, svcLog, orderly, access, hart>>
    /\ UNCHANGED ext

\* CUSTOMFN: socket_client->set_dma_callbacks(read_cb, write_cb), which
\* assigns both callbacks whatever the responder threads are doing
CustomFnInstall ==
    /\ pc[Main] = "idle"
    /\ seq < MaxSeq
    /\ dma_cb # seq + 1
    /\ dma_cb' = seq + 1
    /\ rebound' = {t \in Loops : pc[t] = "dma_service"}
    /\ UNCHANGED <<session, threads, net, hist, mem, dmaReq, svcLog, orderly, access, hart>>
    /\ UNCHANGED ext

\* A faulty CUSTOMFN that dispatches first and sets the callbacks afterwards
CustomFnDispatchFirst ==
    /\ dma_cb = seq
    /\ SawEnter

\* A faulty CUSTOMFN that dispatches without setting the callbacks first
CustomFnDispatchNoInstall == SawEnter

\* CUSTOMFN: socket_client->send_and_wait(insn.funct, xs1, xs2), the
\* statement after the callbacks are set
CustomFnDispatch ==
    /\ dma_cb = seq + 1
    /\ SawEnter

\* the peer, holding a command it has not answered yet, writes the DMA
\* request r on one of the two DMA connections that came with it: a read
\* request (which carries no data) on the DMA-read connection, a write
\* request on the DMA-write connection
PeerDmaIssue(f, r) ==
    /\ f \in peerUp
    /\ f % 3 # 1
    /\ (f % 3 = 2) = (r.data = ZeroData)
    /\ CmdOf(f) \in peerUp
    /\ Len(cmdIn[CmdOf(f)]) >= RecLen
    /\ ~dmaIn[f]
    /\ dmaIssued < MaxDmaLive
    /\ dmaIn' = [dmaIn EXCEPT ![f] = TRUE]
    /\ dmaIssued' = dmaIssued + 1
    /\ dmaReq' = [dmaReq EXCEPT ![f] =
                     [id |-> dmaIssued + 1,
                      for |-> ReadReq(Take(cmdIn[CmdOf(f)], RecLen)),
                      addr |-> r.addr, size |-> r.size, data |-> r.data]]
    /\ UNCHANGED <<session, threads,
                   fdOpen, peerUp, cmdIn, wire, cmdOut, dmaAnswered, hist, dmaFails>>
    /\ UNCHANGED <<mem, dma_cb, svcLog, rebound, orderly, access, hart>>
    /\ UNCHANGED ext

\* A faulty pair of responders that share one receive path, which a
\* responder enters only when the other one is not servicing a request
DmaRecvRecordSerial(t) ==
    /\ pc[t] = "dma_wait"
    /\ rfd[t] \in fdOpen
    /\ dmaIn[rfd[t]]
    /\ \A u \in Loops \ {t} : pc[u] \notin {"dma_service", "dma_respond"}
    /\ dmaIn' = [dmaIn EXCEPT ![rfd[t]] = FALSE]
    /\ dmaReq' = [dmaReq EXCEPT ![rfd[t]] = NoReq]
    /\ svcLog' = [svcLog EXCEPT ![t] =
                     Append(@, Event("recv", dmaReq[rfd[t]], 0, ZeroData, rfd[t]))]
    /\ rfd' = [rfd EXCEPT ![t] = NoFd]
    /\ Goto(t, "dma_service")
    /\ UNCHANGED <<session, stack, initRes,
                   fdOpen, peerUp, cmdIn, wire, cmdOut, dmaIssued, dmaAnswered,
                   hist, dmaFails>>
    /\ UNCHANGED <<mem, dma_cb, rebound, orderly, access, hart>>
    /\ UNCHANGED ext

\* recv_dma_read_request(req) / recv_dma_write_request(req) returns true
\* with the request record in req
DmaRecvRecord(t) ==
    /\ pc[t] = "dma_wait"
    /\ rfd[t] \in fdOpen
    /\ dmaIn[rfd[t]]
    /\ dmaIn' = [dmaIn EXCEPT ![rfd[t]] = FALSE]
    /\ dmaReq' = [dmaReq EXCEPT ![rfd[t]] = NoReq]
    /\ svcLog' = [svcLog EXCEPT ![t] =
                     Append(@, Event("recv", dmaReq[rfd[t]], 0, ZeroData, rfd[t]))]
    /\ rfd' = [rfd EXCEPT ![t] = NoFd]
    /\ Goto(t, "dma_service")
    /\ UNCHANGED <<session, stack, initRes,
                   fdOpen, peerUp, cmdIn, wire, cmdOut, dmaIssued, dmaAnswered,
                   hist, dmaFails>>
    /\ UNCHANGED <<mem, dma_cb, rebound, orderly, access, hart>>
    /\ UNCHANGED ext

\* handle_dma_read(addr, size) returns what the installed read callback
\* returns; handle_dma_write(addr, data, size) is the installed write
\* callback's effect on the simulated memory
handle_dma_read(addr, size) == ReadCb(mem, addr, size)
handle_dma_write(addr, data, size) == WriteCb(mem, addr, data, size)

\* A faulty responder that calls the callback with the arguments of the
\* first request it ever received
HandleDmaStale(t) ==
    /\ pc[t] = "dma_service"
    /\ dma_cb > 0
    /\ LET r == svcLog[t][1].req IN
         IF IsRdLoop(t)
           THEN /\ svcLog' = [svcLog EXCEPT ![t] =
                      Append(@, Event("cb", r, dma_cb,
                                      handle_dma_read(r.addr, r.size), NoFd))]
                /\ UNCHANGED mem
           ELSE /\ svcLog' = [svcLog EXCEPT ![t] =
                      Append(@, Event("cb", r, dma_cb, ZeroData, NoFd))]
                /\ mem' = handle_dma_write(r.addr, r.data, r.size)
    /\ Goto(t, "dma_respond")
    /\ UNCHANGED <<session, stack, rfd, initRes, net, hist>>
    /\ UNCHANGED <<dma_cb, dmaReq, rebound, orderly, access, hart>>
    /\ UNCHANGED ext

\* read_data = handle_dma_read(dma_read_req.addr, dma_read_req.size) /
\* write_data.lo = dma_write_req.data_lo; write_data.hi = dma_write_req.data_hi;
\* handle_dma_write(dma_write_req.addr, write_data, dma_write_req.size):
\* the callback pair installed at this moment serves the request
HandleDma(t) ==
    /\ pc[t] = "dma_service"
    /\ dma_cb > 0
    /\ Current(t).size \in Widths
    /\ LET r == Current(t) IN
         IF IsRdLoop(t)
           THEN /\ svcLog' = [svcLog EXCEPT ![t] =
                      Append(@, Event("cb", r, dma_cb,
                                      handle_dma_read(r.addr, r.size), NoFd))]
                /\ UNCHANGED mem
           ELSE /\ svcLog' = [svcLog EXCEPT ![t] =
                      Append(@, Event("cb", r, dma_cb, ZeroData, NoFd))]
                /\ mem' = handle_dma_write(r.addr, r.data, r.size)
    /\ Goto(t, "dma_respond")
    /\ UNCHANGED <<session, stack, rfd, initRes, net, hist>>
    /\ UNCHANGED <<dma_cb, dmaReq, rebound, orderly, access, hart>>
    /\ UNCHANGED ext

\* A faulty responder that leaves its loop after the first response
DmaSendRespOnce(t) ==
    /\ pc[t] = "dma_respond"
    /\ LoopFd(t) \in fdOpen
    /\ dmaAnswered' = [dmaAnswered EXCEPT ![LoopFd(t)] = @ + 1]
    /\ svcLog' = [svcLog EXCEPT ![t] =
                     Append(@, Event("resp", Current(t), 0,
                                     svcLog[t][Len(svcLog[t])].out, LoopFd(t)))]
    /\ Goto(t, "exited")
    /\ UNCHANGED <<session, stack, rfd, initRes,
                   fdOpen, peerUp, cmdIn, wire, cmdOut, dmaIn, dmaIssued,
                   hist, dmaFails>>
    /\ UNCHANGED <<mem, dma_cb, dmaReq, rebound, orderly, access, hart>>
    /\ UNCHANGED ext

\* resp.data_lo = read_data.lo; resp.data_hi = read_data.hi (a write's
\* response carries no data); send_dma_*_response(resp) returns true
DmaSendResp(t) ==
    /\ pc[t] = "dma_respond"
    /\ LoopFd(t) \in fdOpen
    /\ dmaAnswered' = [dmaAnswered EXCEPT ![LoopFd(t)] = @ + 1]
    /\ svcLog' = [svcLog EXCEPT ![t] =
                     Append(@, Event("resp", Current(t), 0,
                                     svcLog[t][Len(svcLog[t])].out, LoopFd(t)))]
    /\ Goto(t, "loop")
    /\ UNCHANGED <<session, stack, rfd, initRes,
                   fdOpen, peerUp, cmdIn, wire, cmdOut, dmaIn, dmaIssued,
                   hist, dmaFails>>
    /\ UNCHANGED <<mem, dma_cb, dmaReq, rebound, orderly, access, hart>>
    /\ UNCHANGED ext

\* the peer takes one request record off the command connection and answers
PeerAnswer(f, v) ==
    /\ f \in peerUp
    /\ Len(cmdIn[f]) >= RecLen
    /\ ansRid' = ReadReq(Take(cmdIn[f], RecLen))
    /\ ansVal' = v
    /\ wire' = [wire EXCEPT ![f] = @ \o RespUnits(ansRid', v)]
    /\ cmdIn' = [cmdIn EXCEPT ![f] = Drop(@, RecLen)]
    /\ orderly' = (orderly /\ AllAnswered /\ \A g \in Fds : ~dmaIn[g])
    /\ UNCHANGED <<session, threads,
                   fdOpen, peerUp, cmdOut, dmaIn, dmaIssued, dmaAnswered,
                   gen, opened, nSpawn, spawnGen, lastClose, seq, wasReady, prev, tries,
                   sent, gotRid, ret, how, dmaFails>>
    /\ UNCHANGED <<mem, dma_cb, dmaReq, svcLog, rebound, access, hart>>
    /\ UNCHANGED ext

CustomFn == CustomFnInstall \/ CustomFnDispatch

DmaConnect == InitCmd \/ InitRd \/ InitWrFail \/ InitWr \/ StartDmaHandler

DmaDispatch ==
    \/ SawInitRet \/ SendCheck \/ SendSome(RecLen)
    \/ RecvCheck \/ RecvCall \/ RecvFull

Responder(t) ==
    \/ LoopWhile(t) \/ DmaRecvRecord(t) \/ HandleDma(t) \/ DmaSendResp(t)

DmaPeer ==
    \/ \E f \in Fds, v \in Results : PeerAnswer(f, v)
    \/ \E f \in Fds : Deliver(f, Len(wire[f]))
    \/ \E f \in Fds, r \in ReadReqs \cup WriteReqs : PeerDmaIssue(f, r)

DmaNext ==
    \/ CustomFn
    \/ DmaConnect
    \/ DmaDispatch
    \/ \E t \in Loops : Responder(t)
    \/ DmaPeer

\* The caller and the two responder threads are threads of the operating
\* system, which lets each of them run as long as it has a step to take;
\* the peer answers every command it holds and the transport delivers.
DmaFair ==
    /\ WF_vars(DmaDispatch)
    /\ \A t \in Loops : WF_vars(Responder(t))
    /\ WF_vars(\E f \in Fds, v \in Results : PeerAnswer(f, v))
    /\ WF_vars(\E f \in Fds : Deliver(f, Len(wire[f])))

DmaSpec == DmaInit /\ [][DmaNext]_vars /\ DmaFair

\* ============================== DMA requests of every size, and abort()
\* The same client and peer, with the peer free to ask for sizes the
\* callbacks have no case for.
WideReadReqs ==
    {[addr |-> ScenAddr, size |-> z, data |-> ZeroData] : z \in {1, 2, 3, 4, 8}}
WideWriteReqs ==
    {[addr |-> ScenAddr + 8, size |-> z, data |-> HighData] : z \in {0, 2}}

\* the process has been terminated by abort()
Aborted == \A t \in Threads : pc[t] = "aborted"

\* A faulty callback whose default case returns without doing anything
HandleDmaSkip(t) ==
    /\ pc[t] = "dma_service"
    /\ dma_cb > 0
    /\ Current(t).size \notin Widths
    /\ svcLog' = [svcLog EXCEPT ![t] =
                     Append(@, Event("cb", Current(t), dma_cb, ZeroData, NoFd))]
    /\ Goto(t, "dma_respond")
    /\ UNCHANGED <<session, stack, rfd, initRes, net, hist>>
    /\ UNCHANGED <<mem, dma_cb, dmaReq, rebound, orderly, access, hart>>
    /\ UNCHANGED ext

\* the callback's default case: fprintf(stderr, "bebop: Invalid DMA read
\* size ..."); abort(); the process and all its threads end there
HandleDmaAbort(t) ==
    /\ pc[t] = "dma_service"
    /\ dma_cb > 0
    /\ Current(t).size \notin Widths
    /\ svcLog' = [svcLog EXCEPT ![t] =
                     Append(@, Event("abort", Current(t), dma_cb, ZeroData, NoFd))]
    /\ pc' = [u \in Threads |-> "aborted"]
    /\ UNCHANGED <<session, stack, rfd, initRes, net, hist>>
    /\ UNCHANGED <<mem, dma_cb, dmaReq, rebound, orderly, access, hart>>
    /\ UNCHANGED ext

WidePeer ==
    \/ \E f \in Fds, v \in Results : PeerAnswer(f, v)
    \/ \E f \in Fds : Deliver(f, Len(wire[f]))
    \/ \E f \in Fds, r \in WideReadReqs \cup WideWriteReqs : PeerDmaIssue(f, r)

WideNext ==
    \/ CustomFn
    \/ DmaConnect
    \/ DmaDispatch
    \/ \E t \in Loops : Responder(t) \/ HandleDmaAbort(t)
    \/ WidePeer

WideSpec == DmaInit /\ [][WideNext]_vars

\* ============================== the memory callbacks one byte at a time
\* read_from_dram and write_to_dram load and store single bytes, and the
\* two responder threads run their callbacks side by side with nothing to
\* order the two loops, so every load and every store is a step.

\* the peer asks for a four-byte read and for a two-byte write inside it
TornReqs ==
    {[addr |-> ScenAddr, size |-> 4, data |-> ZeroData],
     [addr |-> ScenAddr + 1, size |-> 2, data |-> HighData]}

\* the byte write_cb stores at step idx of its one or two write_to_dram loops
StoreByte(data, idx) == IF idx < 8 THEN data.lo[idx + 1] ELSE data.hi[idx - 7]

\* the value read_cb returns from the bytes its loads returned
ReadValue(bytes, size) ==
    IF size = 16
      THEN [lo |-> Take(bytes, 8), hi |-> Drop(bytes, 8)]
      ELSE [lo |-> Widen(bytes), hi |-> Zero8]

\* the memory as it was when no write callback had stored part of its data
Settled ==
    IF \E u \in Loops : ~IsRdLoop(u) /\ xfer[u].idx > 0
      THEN xfer[CHOOSE u \in Loops : ~IsRdLoop(u) /\ xfer[u].idx > 0].from
      ELSE mem

\* one iteration of the loop in read_from_dram / write_to_dram inside the
\* callback a responder has called; with the last byte the callback returns
HandleDmaByte(t) ==
    /\ pc[t] = "dma_service"
    /\ dma_cb > 0
    /\ Current(t).size \in Widths
    /\ LET r == Current(t)
           idx == xfer[t].idx
           last == idx + 1 = r.size
           bytes == Append(IF idx = 0 THEN <<>> ELSE xfer[t].val, mem[r.addr + idx])
       IN  /\ IF IsRdLoop(t)
                THEN /\ UNCHANGED mem
                     /\ xfer' = [xfer EXCEPT ![t] =
                           [idx |-> IF last THEN 0 ELSE idx + 1,
                            val |-> bytes,
                            from |-> <<>>,
                            seen |-> IF idx = 0 THEN {Settled} ELSE @.seen]]
                ELSE /\ mem' = [mem EXCEPT ![r.addr + idx] = StoreByte(r.data, idx)]
                     /\ xfer' = [u \in Loops |->
                           IF u = t
                             THEN [idx |-> IF last THEN 0 ELSE idx + 1,
                                   val |-> <<>>,
                                   from |-> IF idx = 0 THEN mem ELSE xfer[t].from,
                                   seen |-> {}]
                           ELSE IF last /\ IsRdLoop(u) /\ xfer[u].idx > 0
                             THEN [xfer[u] EXCEPT !.seen = @ \cup {mem'}]
                           ELSE xfer[u]]
           /\ IF last
                THEN /\ svcLog' = [svcLog EXCEPT ![t] =
                           Append(@, Event("cb", r, dma_cb,
                                           IF IsRdLoop(t)
                                             THEN ReadValue(bytes, r.size)
                                             ELSE ZeroData, NoFd))]
                     /\ Goto(t, "dma_respond")
                ELSE UNCHANGED <<svcLog, pc>>
    /\ UNCHANGED <<session, stack, rfd, initRes, net, hist>>
    /\ UNCHANGED <<dma_cb, dmaReq, rebound, orderly, access, hart>>
    /\ UNCHANGED <<legacy, collector>>

TornResponder(t) ==
    \/ LoopWhile(t) \/ DmaRecvRecord(t) \/ HandleDmaByte(t) \/ DmaSendResp(t)

TornPeer ==
    \/ \E f \in Fds, v \in Results : PeerAnswer(f, v)
    \/ \E f \in Fds : Deliver(f, Len(wire[f]))
    \/ \E f \in Fds, r \in TornReqs : PeerDmaIssue(f, r)

TornNext ==
    \/ CustomFn
    \/ DmaConnect
    \/ DmaDispatch
    \/ \E t \in Loops : TornResponder(t)
    \/ TornPeer

TornSpec == DmaInit /\ [][TornNext]_vars

\* ===================================== the memory callbacks on their own
\* read_cb and write_cb called one after another with arguments drawn from
\* small sets, on a memory that starts as one of the images.
AccAddrs == {ScenAddr, ScenAddr + 3, ScenAddr + 8}
DataVals == {WriteData, HighData}

\* one call of a callback: its arguments (for a read, data is what it
\* returned), the bytes it touched in order, and the memory it found
Access(o, a, w, d, tr, m) ==
    [op |-> o, addr |-> a, size |-> w, data |-> d, trace |-> tr, before |-> m]

\* read_cb(a, w)
AdapterRead(a, w) ==
    /\ Len(access) < MaxOps
    /\ access' = Append(access, Access("read", a, w, ReadCb(mem, a, w),
                                       ReadCbLoads(a, w), mem))
    /\ UNCHANGED <<session, threads, net, hist>>
    /\ UNCHANGED <<mem, dma_cb, dmaReq, svcLog, rebound, orderly, hart>>
    /\ UNCHANGED ext

\* write_cb(a, d, w)
AdapterWrite(a, w, d) ==
    /\ Len(access) < MaxOps
    /\ mem' = WriteCb(mem, a, d, w)
    /\ access' = Append(access, Access("write", a, w, d, WriteCbStores(a, w), mem))
    /\ UNCHANGED <<session, threads, net, hist>>
    /\ UNCHANGED <<dma_cb, dmaReq, svcLog, rebound, orderly, hart>>
    /\ UNCHANGED ext

MemNext ==
    \/ \E a \in AccAddrs, w \in Widths : AdapterRead(a, w)
    \/ \E a \in AccAddrs, w \in Widths, d \in DataVals : AdapterWrite(a, w, d)

MemSpec == DmaInit /\ [][MemNext]_vars

\* ===================================================== the instruction hook
\* bebop_custom executes one custom instruction: it reads the operands,
\* calls CUSTOMFN (which sets the callbacks and dispatches), writes the
\* result and returns the next program counter.  The records the process
\* sends are kept with their fields.

\* A faulty send_and_wait that puts the operands in each other's field
CmdReqRecordSwapped(funct, xs1, xs2) ==
    [header |-> [msg_type |-> "MSG_TYPE_CMD_REQ", reserved |-> 0],
     funct |-> funct, padding |-> 0, xs1 |-> xs2, xs2 |-> xs1]

\* cmd_req_t as send_and_wait(funct, xs1, xs2) fills it in
CmdReqRecord(funct, xs1, xs2) ==
    [header |-> [msg_type |-> "MSG_TYPE_CMD_REQ", reserved |-> 0],
     funct |-> funct, padding |-> 0, xs1 |-> xs1, xs2 |-> xs2]

\* dma_read_resp_t as dma_read_handler_thread fills it in from read_data
DmaReadRespRecord(read_data) ==
    [header |-> [msg_type |-> "MSG_TYPE_DMA_READ_RESP", reserved |-> 0],
     data_lo |-> read_data.lo, data_hi |-> read_data.hi]

\* dma_write_resp_t as dma_write_handler_thread fills it in
DmaWriteRespRecord ==
    [header |-> [msg_type |-> "MSG_TYPE_DMA_WRITE_RESP", reserved |-> 0],
     reserved |-> 0]

\* a record written to connection f by thread t
Emit(f, t, rec) == [conn |-> f, by |-> t, rec |-> rec]

\* A faulty hook that passes 0 for an operand whose use bit is clear
HookEnterZeroUnused(i) ==
    /\ hart.stage = "fetch"
    /\ pc[Main] = "idle"
    /\ seq < MaxSeq
    /\ hart' = [hart EXCEPT !.stage = "entered", !.insn = i,
                            !.xs1 = IF i.xs1 THEN hart.XPR[i.rs1] ELSE 0,
                            !.xs2 = IF i.xs2 THEN hart.XPR[i.rs2] ELSE 0,
                            !.args = <<>>, !.seq0 = seq,
                            !.installs = 0, !.dispatches = 0]
    /\ UNCHANGED <<session, threads, net, hist>>
    /\ UNCHANGED <<mem, dma_cb, dmaReq, svcLog, rebound, orderly, access>>
    /\ UNCHANGED ext

\* bebop_custom: u.i = insn; xs1 = u.r.xs1 ? state->XPR[insn.rs1()] : -1;
\* xs2 = u.r.xs2 ? state->XPR[insn.rs2()] : -1;
HookEnter(i) ==
    /\ hart.stage = "fetch"
    /\ pc[Main] = "idle"
    /\ seq < MaxSeq
    /\ hart' = [hart EXCEPT !.stage = "entered", !.insn = i,
                            !.xs1 = IF i.xs1 THEN hart.XPR[i.rs1] ELSE AllOnesReg,
                            !.xs2 = IF i.xs2 THEN hart.XPR[i.rs2] ELSE AllOnesReg,
                            !.args = <<>>, !.seq0 = seq,
                            !.installs = 0, !.dispatches = 0]
    /\ UNCHANGED <<session, threads, net, hist>>
    /\ UNCHANGED <<mem, dma_cb, dmaReq, svcLog, rebound, orderly, access>>
    /\ UNCHANGED ext

\* CUSTOMFN entered from the hook: socket_client->set_dma_callbacks(read_cb,
\* write_cb), which assigns both callbacks whatever the responders are doing
HookInstall ==
    /\ hart.stage = "entered"
    /\ dma_cb' = seq + 1
    /\ rebound' = {t \in Loops : pc[t] = "dma_service"}
    /\ hart' = [hart EXCEPT !.stage = "installed", !.installs = @ + 1]
    /\ UNCHANGED <<session, threads, net, hist>>
    /\ UNCHANGED <<mem, dmaReq, svcLog, orderly, access>>
    /\ UNCHANGED ext

\* CUSTOMFN: socket_client->send_and_wait(insn.funct, xs1, xs2), the call
\* with its arguments
HookCall ==
    /\ hart.stage = "installed"
    /\ hart' = [hart EXCEPT !.stage = "calling",
                            !.args = <<hart.insn.funct, hart.xs1, hart.xs2>>,
                            !.dispatches = @ + 1]
    /\ UNCHANGED <<session, threads, net, hist>>
    /\ UNCHANGED <<mem, dma_cb, dmaReq, svcLog, rebound, orderly, access>>
    /\ UNCHANGED ext

\* send_and_wait entered by that call
HookSaw ==
    /\ hart.stage = "calling"
    /\ seq = hart.seq0
    /\ SawEnter

\* bebop_custom after CUSTOMFN returned xd, the value send_and_wait
\* returned: if (u.r.xd) state->XPR.write(insn.rd(), xd); return pc + 4;
HookReturn ==
    /\ hart.stage = "calling"
    /\ seq = hart.seq0 + 1
    /\ pc[Main] = "idle"
    /\ hart' = [hart EXCEPT !.stage = "fetch",
                            !.XPR = IF hart.insn.xd
                                      THEN [@ EXCEPT ![hart.insn.rd] = ret]
                                      ELSE @,
                            !.pc = @ + 4]
    /\ UNCHANGED <<session, threads, net, hist>>
    /\ UNCHANGED <<mem, dma_cb, dmaReq, svcLog, rebound, orderly, access>>
    /\ UNCHANGED ext

\* send_and_wait: cmd_req filled in from the arguments and handed to
\* send_cmd_request, whose send() transmits the whole record
SendCmdRequest ==
    /\ pc[Main] = "send_call"
    /\ cmd_sock_fd \in fdOpen
    /\ cmdIn' = [cmdIn EXCEPT ![cmd_sock_fd] = @ \o ReqUnits(seq)]
    /\ sent' = TRUE
    /\ hart' = [hart EXCEPT !.emitted = @ \cup
                   {Emit(cmd_sock_fd, Main,
                         CmdReqRecord(hart.args[1], hart.args[2], hart.args[3]))}]
    /\ Goto(Main, "recv_check")
    /\ UNCHANGED <<session, stack, rfd, initRes,
                   fdOpen, peerUp, wire, cmdOut, dmaIn, dmaIssued, dmaAnswered,
                   gen, opened, nSpawn, spawnGen, lastClose, seq, wasReady, prev, tries,
                   ansRid, ansVal, gotRid, ret, how, dmaFails>>
    /\ UNCHANGED <<mem, dma_cb, dmaReq, svcLog, rebound, orderly, access>>
    /\ UNCHANGED ext

\* the responder fills in its response record (a read's from read_data)
\* and send_dma_*_response(resp) returns true
SendDmaResponse(t) ==
    /\ pc[t] = "dma_respond"
    /\ LoopFd(t) \in fdOpen
    /\ dmaAnswered' = [dmaAnswered EXCEPT ![LoopFd(t)] = @ + 1]
    /\ svcLog' = [svcLog EXCEPT ![t] =
                     Append(@, Event("resp", Current(t), 0,
                                     svcLog[t][Len(svcLog[t])].out, LoopFd(t)))]
    /\ hart' = [hart EXCEPT !.emitted = @ \cup
                   {Emit(LoopFd(t), t,
                         IF IsRdLoop(t)
                           THEN DmaReadRespRecord(svcLog[t][Len(svcLog[t])].out)
                           ELSE DmaWriteRespRecord)}]
    /\ Goto(t, "loop")
    /\ UNCHANGED <<session, stack, rfd, initRes,
                   fdOpen, peerUp, cmdIn, wire, cmdOut, dmaIn, dmaIssued,
                   hist, dmaFails>>
    /\ UNCHANGED <<mem, dma_cb, dmaReq, rebound, orderly, access>>
    /\ UNCHANGED ext

Hook ==
    \/ \E i \in Insns : HookEnter(i)
    \/ HookInstall
    \/ HookCall
    \/ HookSaw
    \/ HookReturn

HookDispatch ==
    \/ SawInitRet \/ SendCheck \/ SendCmdRequest
    \/ RecvCheck \/ RecvCall \/ RecvFull

HookResponder(t) ==
    \/ LoopWhile(t) \/ DmaRecvRecord(t) \/ HandleDma(t) \/ SendDmaResponse(t)

\* the peer asks for one sixteen-byte read and one eight-byte write
HookReqs ==
    {[addr |-> ScenAddr, size |-> 16, data |-> ZeroData],
     [addr |-> ScenAddr + 8, size |-> 8, data |-> WriteData]}

HookPeer ==
    \/ \E f \in Fds, v \in Results : PeerAnswer(f, v)
    \/ \E f \in Fds : Deliver(f, Len(wire[f]))
    \/ \E f \in Fds, r \in HookReqs : PeerDmaIssue(f, r)

HookNext ==
    \/ Hook
    \/ DmaConnect
    \/ HookDispatch
    \/ \E t \in Loops : HookResponder(t)
    \/ HookPeer

HookSpec == DmaInit /\ [][HookNext]_vars

\* ============================================ the single-connection client
\* src/customext holds an earlier SocketClient with one socket and no
\* threads: sock_fd, socket_initialized, init, close, send_and_wait.  Its
\* calls run to completion one after the other; each system call's result
\* is chosen freely.  The record legacy holds its fields, the descriptors
\* the process has open for it, the count of sockets init has asked for,
\* and what every call did.

MaxCalls == 3      \* calls made to the single-connection client

SocketResults == {"socket_fails", "connect_fails", "connected"}
SendResults == {"send_fails", "sent"}
RecvResults == {"recv_fails", "recv_closed", "recv_short", "recv_full"}

\* the descriptor socket() returns: the lowest one the process has free
lowest_free(open) == CHOOSE f \in Fds \ open : \A g \in Fds \ open : f <= g

\* A faulty close() that invalidates the handle and keeps the flag
legacy_close_keeps_flag(c) ==
    IF c.sock_fd >= 0
      THEN [c EXCEPT !.open = @ \ {c.sock_fd}, !.sock_fd = NoFd]
      ELSE c

\* SocketClient::close()
legacy_close(c) ==
    [(IF c.sock_fd >= 0
        THEN [c EXCEPT !.open = @ \ {c.sock_fd}, !.sock_fd = NoFd]
        ELSE c)
     EXCEPT !.socket_initialized = FALSE]

\* SocketClient::init(), with the result o of socket() and connect();
\* inet_pton of the constant dotted address SOCKET_HOST succeeds
legacy_init(c, o) ==
    IF c.socket_initialized
      THEN [c |-> c, ok |-> TRUE]
    ELSE IF o = "socket_fails"
      THEN [c |-> [c EXCEPT !.sock_fd = NoFd, !.made = @ + 1], ok |-> FALSE]
    ELSE IF o = "connect_fails"
      THEN [c |-> [c EXCEPT !.sock_fd = NoFd, !.made = @ + 1], ok |-> FALSE]
    ELSE [c |-> [c EXCEPT !.sock_fd = lowest_free(c.open),
                          !.open = @ \cup {lowest_free(c.open)},
                          !.made = @ + 1,
                          !.socket_initialized = TRUE],
          ok |-> TRUE]

\* SocketClient::send_request(msg), with the result o of send()
legacy_send_request(c, o) ==
    IF c.sock_fd < 0
      THEN [c |-> c, ok |-> FALSE]
    ELSE IF o = "send_fails"
      THEN [c |-> legacy_close(c), ok |-> FALSE]
    ELSE [c |-> c, ok |-> TRUE]

\* SocketClient::recv_response(resp), with the result o of recv(): a
\* negative count and a count of 0 are failures, any other count is taken
\* as a response
legacy_recv_response(c, o) ==
    IF c.sock_fd < 0
      THEN [c |-> c, ok |-> FALSE]
    ELSE IF o \in {"recv_fails", "recv_closed"}
      THEN [c |-> legacy_close(c), ok |-> FALSE]
    ELSE [c |-> c, ok |-> TRUE]

\* SocketClient::send_and_wait(funct, xs1, xs2): the client afterwards,
\* the value returned and the step that ended the call.  v is resp.result
\* after recv(): the peer's result, or after a short count whatever the
\* partly written resp holds.
legacy_send_and_wait(c, oi, os, or, v) ==
    LET i == legacy_init(c, oi)
        s == legacy_send_request(i.c, os)
        r == legacy_recv_response(s.c, or)
    IN  IF ~i.ok THEN [c |-> i.c, ret |-> 0, end |-> oi]
        ELSE IF ~s.ok THEN [c |-> s.c, ret |-> 0, end |-> os]
        ELSE IF ~r.ok THEN [c |-> r.c, ret |-> 0, end |-> or]
        ELSE [c |-> r.c, ret |-> v, end |-> or]

\* what a call did: is_connected() before and after it, the sockets it
\* asked for, how it ended and what it returned
LegacyCall(name, c, d, end, value) ==
    [call |-> name, was |-> c.socket_initialized, now |-> d.socket_initialized,
     attempts |-> d.made - c.made, end |-> end, ret |-> value]

LegacyFrame ==
    /\ UNCHANGED <<session, threads, net, hist>>
    /\ UNCHANGED <<mem, dma_cb, dmaReq, svcLog, rebound, orderly, access, hart>>
    /\ UNCHANGED <<xfer, collector>>

\* the program calls init()
LegacyInitCall ==
    /\ Len(legacy.calls) < MaxCalls
    /\ \E o \in SocketResults :
           LET i == legacy_init(legacy, o)
           IN  legacy' = [i.c EXCEPT !.calls =
                   Append(@, LegacyCall("init", legacy, i.c,
                                        IF legacy.socket_initialized
                                          THEN "already" ELSE o,
                                        IF i.ok THEN 1 ELSE 0))]
    /\ LegacyFrame

\* the program calls close()
LegacyCloseCall ==
    /\ Len(legacy.calls) < MaxCalls
    /\ LET d == legacy_close(legacy)
       IN  legacy' = [d EXCEPT !.calls =
               Append(@, LegacyCall("close", legacy, d, "closed", 0))]
    /\ LegacyFrame

\* the program calls send_and_wait()
LegacySendAndWait ==
    /\ Len(legacy.calls) < MaxCalls
    /\ \E oi \in SocketResults, os \in SendResults, or \in RecvResults,
          v \in Results :
           LET w == legacy_send_and_wait(legacy, oi, os, or, v)
           IN  legacy' = [w.c EXCEPT !.calls =
                   Append(@, LegacyCall("send_and_wait", legacy, w.c,
                                        w.end, w.ret))]
    /\ LegacyFrame

LegacyNext ==
    \/ LegacyInitCall
    \/ LegacyCloseCall
    \/ LegacySendAndWait

LegacySpec == DmaInit /\ [][LegacyNext]_vars

\* ===================================================== the signal collector
\* SignalCollector (gem5 BebopInOCPU probe) samples registered probes once
\* per collect() into a history and, when tracing, into a trace file.  It
\* has no threads of its own; each public call is one action.

MaxCollect == 3    \* calls of collect() without a trace file
MaxTraced == 2     \* calls of collect() with one
MaxHist == 2       \* the largest limit setMaxHistorySize is called with
MaxTrace == 1      \* calls of enableTrace() that open the file

\* the signal names the program uses, in std::map's (lexicographic) order
SignalNames == <<"clk", "pc">>
Signals == {SignalNames[i] : i \in DOMAIN SignalNames}

\* what the program registers a name with: a probe, a type, a description
FirstRegistration ==
    [probe |-> "p1", type |-> "UINT64", description |-> "first"]
Registrations ==
    {FirstRegistration, [probe |-> "p2", type |-> "BOOL", description |-> ""]}

\* the keys of a std::map in iteration order
Columns(map) == SelectSeq(SignalNames, LAMBDA n : n \in DOMAIN map)

\* map[name] = value
Put(map, name, value) ==
    [n \in DOMAIN map \cup {name} |-> IF n = name THEN value ELSE map[n]]

\* map.erase(name)
Erase(map, name) == [n \in DOMAIN map \ {name} |-> map[n]]

\* the first two lines of a trace file
TraceBanner ==
    <<[kind |-> "comment", cols |-> <<>>, cells |-> <<>>],
      [kind |-> "comment", cols |-> <<>>, cells |-> <<>>]>>

\* SignalCollector::writeTraceHeader()
writeTraceHeader(file, probes) ==
    IF ~file.is_open
      THEN file
      ELSE [file EXCEPT !.lines = @ \o TraceBanner \o
               <<[kind |-> "header",
                  cols |-> <<"Tick", "Cycle">> \o Columns(probes),
                  cells |-> <<>>]>>]

\* SignalCollector::writeTraceEntry(snapshot): one cell per name in
\* signal_probes, the snapshot's value for it or N/A
writeTraceEntry(file, probes, snapshot) ==
    IF ~file.is_open
      THEN file
      ELSE [file EXCEPT !.lines = Append(@,
               [kind |-> "entry",
                cols |-> <<"Tick", "Cycle">> \o Columns(probes),
                cells |-> <<"tick", snapshot.cycle>> \o
                    [i \in DOMAIN Columns(probes) |->
                        IF Columns(probes)[i] \in DOMAIN snapshot.signals
                          THEN snapshot.signals[Columns(probes)[i]]
                          ELSE "N/A"]])]

CollectorFrame ==
    /\ UNCHANGED <<session, threads, net, hist>>
    /\ UNCHANGED <<mem, dma_cb, dmaReq, svcLog, rebound, orderly, access, hart>>
    /\ UNCHANGED <<xfer, legacy>>

\* A faulty registerSignal that replaces the probe of a registered name
registerSignalOverwrites(name, reg) ==
    /\ signal_probes' = Put(signal_probes, name, reg.probe)
    /\ signal_metadata' = Put(signal_metadata, name,
                              <<reg.type, reg.description>>)
    /\ returned' = TRUE
    /\ UNCHANGED <<enabled, trace_enabled, trace_file, signal_history,
                   max_history_size, current_cycle>>
    /\ CollectorFrame

\* SignalCollector::registerSignal(signal_name, probe, type, description)
registerSignal(name, reg) ==
    /\ IF name \in DOMAIN signal_probes
         THEN /\ returned' = FALSE
              /\ UNCHANGED <<signal_probes, signal_metadata>>
         ELSE /\ signal_probes' = Put(signal_probes, name, reg.probe)
              /\ signal_metadata' = Put(signal_metadata, name,
                                        <<reg.type, reg.description>>)
              /\ returned' = TRUE
    /\ UNCHANGED <<enabled, trace_enabled, trace_file, signal_history,
                   max_history_size, current_cycle>>
    /\ CollectorFrame

\* SignalCollector::unregisterSignal(signal_name)
unregisterSignal(name) ==
    /\ IF name \notin DOMAIN signal_probes
         THEN /\ returned' = FALSE
              /\ UNCHANGED <<signal_probes, signal_metadata>>
         ELSE /\ signal_probes' = Erase(signal_probes, name)
              /\ signal_metadata' = Erase(signal_metadata, name)
              /\ returned' = TRUE
    /\ UNCHANGED <<enabled, trace_enabled, trace_file, signal_history,
                   max_history_size, current_cycle>>
    /\ CollectorFrame

\* SignalCollector::setEnabled(enable)
setEnabled(enable) ==
    /\ enabled' = enable
    /\ UNCHANGED <<returned, trace_enabled, trace_file, signal_probes, signal_metadata,
                   signal_history, max_history_size, current_cycle>>
    /\ CollectorFrame

\* SignalCollector::enableTrace(file_path); opens says whether the file
\* could be opened
enableTrace(opens) ==
    /\ IF opens
         THEN /\ trace_file' = writeTraceHeader(
                                  [is_open |-> TRUE, lines |-> <<>>,
                                   opens |-> trace_file.opens + 1],
                                  signal_probes)
              /\ trace_enabled' = TRUE
         ELSE /\ trace_file' = [trace_file EXCEPT !.is_open = FALSE]
              /\ UNCHANGED trace_enabled
    /\ returned' = opens
    /\ UNCHANGED <<enabled, signal_probes, signal_metadata, signal_history,
                   max_history_size, current_cycle>>
    /\ CollectorFrame

\* SignalCollector::disableTrace()
disableTrace ==
    /\ trace_enabled' = FALSE
    /\ trace_file' = [trace_file EXCEPT !.is_open = FALSE]
    /\ UNCHANGED <<returned, enabled, signal_probes, signal_metadata, signal_history,
                   max_history_size, current_cycle>>
    /\ CollectorFrame

\* SignalCollector::setMaxHistorySize(size)
setMaxHistorySize(size) ==
    /\ max_history_size' = size
    /\ UNCHANGED <<returned, enabled, trace_enabled, trace_file, signal_probes,
                   signal_metadata, signal_history, current_cycle>>
    /\ CollectorFrame

\* the snapshot collect() takes at a given cycle when the probes of the
\* names in sampled return (the reading "1") and the rest throw
Snapshot(cycle, sampled) ==
    [cycle |-> cycle, signals |-> [n \in sampled |-> "1"]]

\* the history after push_back(snapshot) and the size limit
Stored(snapshot) ==
    IF /\ max_history_size > 0
       /\ Len(signal_history) + 1 > max_history_size
      THEN Tail(Append(signal_history, snapshot))
      ELSE Append(signal_history, snapshot)

\* A faulty collect() that numbers the snapshot after counting it
collectCountsFirst ==
    /\ IF ~enabled
         THEN UNCHANGED <<current_cycle, signal_history, trace_file>>
         ELSE \E sampled \in SUBSET DOMAIN signal_probes :
                 /\ current_cycle' = current_cycle + 1
                 /\ signal_history' = Stored(Snapshot(current_cycle + 1, sampled))
                 /\ trace_file' =
                        IF trace_enabled
                          THEN writeTraceEntry(trace_file, signal_probes,
                                               Snapshot(current_cycle + 1, sampled))
                          ELSE trace_file
    /\ UNCHANGED <<returned, enabled, trace_enabled, signal_probes, signal_metadata,
                   max_history_size>>
    /\ CollectorFrame

\* SignalCollector::collect()
collect ==
    /\ IF ~enabled
         THEN UNCHANGED <<current_cycle, signal_history, trace_file>>
         ELSE \E sampled \in SUBSET DOMAIN signal_probes :
                 /\ current_cycle' = current_cycle + 1
                 /\ signal_history' = Stored(Snapshot(current_cycle, sampled))
                 /\ trace_file' =
                        IF trace_enabled
                          THEN writeTraceEntry(trace_file, signal_probes,
                                               Snapshot(current_cycle, sampled))
                          ELSE trace_file
    /\ UNCHANGED <<returned, enabled, trace_enabled, signal_probes, signal_metadata,
                   max_history_size>>
    /\ CollectorFrame

\* SignalCollector::clearHistory()
clearHistory ==
    /\ signal_history' = <<>>
    /\ UNCHANGED <<returned, enabled, trace_enabled, trace_file, signal_probes,
                   signal_metadata, max_history_size, current_cycle>>
    /\ CollectorFrame

\* the CPU model calls collect() once per cycle: MaxCollect cycles where
\* no trace file is used, MaxTraced where one is
CollectCycle == current_cycle < MaxCollect /\ collect
CollectTracedCycle == current_cycle < MaxTraced /\ collect

\* the program calls enableTrace(file_path)
OpenTrace(opens) ==
    /\ opens => trace_file.opens < MaxTrace
    /\ enableTrace(opens)

\* the program registers and samples signals and keeps a history, without
\* a trace file
HistoryNext ==
    \/ \E name \in Signals, reg \in Registrations : registerSignal(name, reg)
    \/ \E name \in Signals : unregisterSignal(name)
    \/ \E enable \in BOOLEAN : setEnabled(enable)
    \/ \E size \in 0..MaxHist : setMaxHistorySize(size)
    \/ CollectCycle
    \/ clearHistory

HistorySpec == DmaInit /\ [][HistoryNext]_vars

\* the program also writes a trace file
CollectorNext ==
    \/ \E name \in Signals : registerSignal(name, FirstRegistration)
    \/ \E name \in Signals : unregisterSignal(name)
    \/ \E enable \in BOOLEAN : setEnabled(enable)
    \/ \E opens \in BOOLEAN : OpenTrace(opens)
    \/ disableTrace
    \/ \E size \in 0..1 : setMaxHistorySize(size)
    \/ CollectTracedCycle
    \/ clearHistory

CollectorSpec == DmaInit /\ [][CollectorNext]_vars

\* ================================================================ properties
Handles == {cmd_sock_fd, dma_read_sock_fd, dma_write_sock_fd}

AllValid == \A h \in Handles : h >= 0

AllInvalid == Handles = {NoFd}

\* close() has run to its end and nothing has touched the Session since
Closed == AllInvalid /\ ~socket_initialized /\ ~dma_handler_running

\* the sockets of the latest connect attempt
GenFds == {CmdFd(gen), RdFd(gen), WrFd(gen)}

\* no thread is inside init() or close()
Quiescent ==
    \A t \in Threads :
        pc[t] \notin {"init", "init_rd", "init_wr", "start_dma_handler", "close"}

\* the last dispatch has returned and the caller has made no call since
Returned == pc[Main] = "idle" /\ how \notin {"none", "running"}

\* C1: whenever no connect or close is in progress, the Session is ready
\* exactly when all three handles are valid, and the handles are either all
\* valid or all invalid.
C1_ReadyIffAllHandlesValid ==
    Quiescent => /\ socket_initialized <=> AllValid
                 /\ AllValid \/ AllInvalid

\* the schedule that refutes C1: a responder thread of an earlier connection
\* runs close() while the caller is inside a later init(), which goes on to
\* declare the Session ready
C1_StaleCloseDuringConnect ==
    /\ Quiescent
    /\ socket_initialized
    /\ cmd_sock_fd = NoFd
    /\ lastClose \in Loops

\* init() has just returned false to its caller
InitFailed == pc[Main] \in {"saw_init_ret", "init_done"} /\ ~initRes

C3_ResponseAnswersItsRequest ==
    (Returned /\ how = "ok") =>
        /\ ansRid = seq
        /\ gotRid = {seq}
        /\ ret = ansVal
        /\ cmd_sock_fd \in fdOpen =>
               /\ cmdIn[cmd_sock_fd] = <<>>
               /\ wire[cmd_sock_fd] = <<>>
               /\ cmdOut[cmd_sock_fd] = <<>>

\* the second dispatch succeeded with a non-zero result on a connection whose
\* DMA channel served a request of the peer
C3_SecondDispatchAfterDma ==
    /\ Returned
    /\ how = "ok"
    /\ seq = MaxSeq
    /\ ret = AllOnes
    /\ \E f \in fdOpen : dmaAnswered[f] > 0

\* what is in flight on command connection f, request or response
InFlight(f) == Len(cmdIn[f]) + Len(wire[f]) + Len(cmdOut[f])

\* C4: at most one command is outstanding.  No command connection ever
\* carries more than one record, and a dispatch about to send finds nothing
\* of an earlier dispatch on the connection.
C4_OneCommandOutstanding ==
    /\ \A f \in fdOpen : InFlight(f) <= RecLen
    /\ (pc[Main] = "send_call" /\ cmd_sock_fd \in fdOpen) => InFlight(cmd_sock_fd) = 0

\* the second dispatch has its request outstanding at the peer
C4_SecondRequestOutstanding ==
    /\ pc[Main] = "recv_wait"
    /\ seq = MaxSeq
    /\ prev = "ok"
    /\ cmdIn[rfd[Main]] = ReqUnits(seq)

\* the paths on which a send or a receive of the command channel failed
TransportFailures == {"send_error", "short", "eof", "error"}

\* C5: a failed send of the command request or a failed read of the command
\* response closes the whole Session: when that dispatch returns, all three
\* handles are invalid, the Session is not ready and the responder loops are
\* told to stop.
C5_CommandFailureClosesSession ==
    ((pc[Main] = "saw_failed" \/ Returned) /\ how \in TransportFailures) => Closed

\* a dispatch on a Session that was up has returned after its send failed
C5_SendFailedOnLiveSession ==
    /\ Returned
    /\ how = "send_error"
    /\ wasReady
    /\ nSpawn > 0

\* C6: a dispatch returns the result field of the response when it succeeds
\* and 0 on every failure path, so a failure and a success whose result is 0
\* return the same value.
C6_ResultOrZero ==
    Returned => IF how = "ok" THEN ret = ansVal ELSE ret = 0

\* a dispatch succeeded with the result 0, the value a failure returns
C6_SuccessWithZero ==
    /\ Returned
    /\ how = "ok"
    /\ ansVal = 0
    /\ ret = 0
    /\ sent

\* C7: a dispatch on a Session that is not ready makes exactly one connect
\* attempt, and when that fails it returns failure without sending and
\* without a second attempt; a dispatch on a ready Session makes none; and
\* nothing is connected before the first connect attempt.
C7_OneConnectAttempt ==
    /\ how # "none" => tries <= (IF wasReady THEN 0 ELSE 1)
    /\ Returned => tries = (IF wasReady THEN 0 ELSE 1)
    /\ (Returned /\ how = "connect_failed") => ~sent /\ tries = 1
    /\ gen = 0 => fdOpen = {} /\ Closed

\* a dispatch returned failure after its one connect attempt failed
C7_ConnectFailedOnce ==
    /\ Returned
    /\ how = "connect_failed"
    /\ tries = 1
    /\ ~wasReady

\* C8: when the peer closes the command connection under a blocked dispatch,
\* the receive cannot block any longer, the dispatch returns failure and
\* leaves the Session closed and not ready, and the dispatch after it sends
\* its request only after one connect attempt that connected all three
\* channels.
C8_PeerCloseThenReconnect ==
    /\ (pc[Main] = "recv_wait" /\ rfd[Main] \in fdOpen \ peerUp) =>
           ENABLED (RecvEof \/ RecvFull \/ RecvShort
                       \/ \E n \in 1..RecLen : Deliver(rfd[Main], n))
    /\ ((pc[Main] = "saw_failed" \/ Returned) /\ how = "eof") => Closed
    /\ (Returned /\ how = "eof") => ret = 0
    /\ (prev = "eof" /\ sent) => /\ ~wasReady
                                /\ tries = 1
                                /\ initRes
                                /\ opened = 3

\* the dispatch after a peer close reconnected and succeeded
C8_ReconnectedAfterPeerClose ==
    /\ Returned
    /\ prev = "eof"
    /\ how = "ok"
    /\ tries = 1

\* C9: a transport failure on a DMA channel closes the whole Session, and
\* nothing reconnects it before the next dispatch: a caller between calls,
\* after a responder loop ran close(), finds the Session not ready and all
\* three handles invalid, so that its next dispatch reconnects.
C9_DmaFailureClosesSession ==
    (pc[Main] = "idle" /\ lastClose \in Loops) =>
        ~socket_initialized /\ AllInvalid

\* C10: a response shorter than a response record is a transport failure:
\* the Session is closed, the dispatch returns 0, and the receive is not
\* entered again for the missing units.
C10_ShortResponseFails ==
    how = "short" => /\ pc[Main] \in {"close", "saw_failed", "idle"}
                     /\ pc[Main] # "close" => Closed
                     /\ pc[Main] = "idle" => ret = 0

\* the peer answered the request, yet the dispatch read only part of the
\* answer and returned failure
C10_ShortReadOfAnswer ==
    /\ Returned
    /\ how = "short"
    /\ ansRid = seq
    /\ ansVal = AllOnes

\* C11: a command request the dispatch treats as sent was transmitted whole:
\* a dispatch that goes on to wait for the response, on a connection that is
\* still open, has a full request record (or the answer to it) on that
\* connection.
C11_SentRequestIsWhole ==
    (pc[Main] = "recv_check" /\ sent /\ cmd_sock_fd \in fdOpen) =>
        InFlight(cmd_sock_fd) = RecLen

\* C12: when init() has connected a Session that was not ready, then on its
\* return the Session is ready and this call has started a read-side and a
\* write-side responder loop.
C12_ConnectStartsLoops ==
    [][(pc[Main] = "start_dma_handler" /\ pc'[Main] # "start_dma_handler") =>
           /\ socket_initialized'
           /\ spawnGen' = gen'
           /\ pc'[RdLoop(nSpawn')] = "loop"
           /\ pc'[WrLoop(nSpawn')] = "loop"]_vars

C17_FailedIsTerminal ==
    [][\A t \in Loops :
           /\ (pc[t] = "dma_wait" /\ pc'[t] \notin {"dma_wait", "dma_service"})
                  => pc'[t] = "close" /\ stack'[t] = <<"exited">>
           /\ (pc[t] = "dma_service" /\ pc'[t] # "dma_service"
                  /\ dmaAnswered' = dmaAnswered)
                  => pc'[t] = "close" /\ stack'[t] = <<"exited">>
           /\ pc[t] = "close" => pc'[t] \in {"close", "exited"}
           /\ pc[t] = "exited" => pc'[t] = "exited"
           /\ (pc[t] = "unborn" /\ pc'[t] # "unborn")
                  => pc[Main] = "start_dma_handler"]_vars

\* a loop of the first connection failed and is at its end, and the loops of
\* a reconnect are running
C17_FailedLoopAndNewLoops ==
    /\ dmaFails > 0
    /\ pc[RdLoop(1)] = "exited"
    /\ nSpawn = 2
    /\ pc[RdLoop(2)] = "dma_wait"


\* ---------------------------------------------------- DMA servicing in detail
\* the events of responder t that belong to its k-th request
Round(t, k) == SubSeq(svcLog[t], 3 * k - 2, Min(3 * k, Len(svcLog[t])))

\* the rounds responder t has begun
Rounds(t) == 1..((Len(svcLog[t]) + 2) \div 3)

\* every response the peer has received so far
Responses ==
    UNION {{svcLog[t][k] : k \in {j \in 1..Len(svcLog[t]) : svcLog[t][j].ev = "resp"}} :
           t \in Loops}

\* C19: the callback pair is installed before every dispatch and is not
\* rebound until that dispatch has returned: from the call of send_and_wait
\* to its return, and whenever a command request is on its way or with the
\* peer, the installed pair is the one of the current dispatch.
C19_OneEpochPerDispatch ==
    /\ how = "running" => dma_cb = seq
    /\ (\E f \in Fds : cmdIn[f] # <<>>) => dma_cb = seq

\* the second dispatch is blocked on its response with its own callback
\* pair installed while a responder is servicing a request
C19_SecondEpochInService ==
    /\ pc[Main] = "recv_wait"
    /\ seq = 2
    /\ dma_cb = 2
    /\ \E t \in Loops : pc[t] = "dma_service"


\* C16: a responder loop handles one request at a time. What it does is
\* a sequence of rounds: a request record received, then one call of the
\* callback with that request's address and size (and data), then one
\* response for that request on the connection it came on; no request is
\* received twice; the loop is servicing exactly while a round is open and
\* is back at its head, or awaiting a request, once the response is sent.
C16_OneRequestAtATime ==
    \A t \in Loops :
        /\ \A k \in 1..Len(svcLog[t]) :
               /\ svcLog[t][k].ev = <<"recv", "cb", "resp">>[((k - 1) % 3) + 1]
               /\ svcLog[t][k].ev = "recv" =>
                      /\ svcLog[t][k].req.id \in 1..dmaIssued
                      /\ svcLog[t][k].conn = LoopFd(t)
               /\ svcLog[t][k].ev = "cb" =>
                      /\ svcLog[t][k].req = svcLog[t][k - 1].req
                      /\ svcLog[t][k].epoch > 0
               /\ svcLog[t][k].ev = "resp" =>
                      /\ svcLog[t][k].req = svcLog[t][k - 2].req
                      /\ svcLog[t][k].conn = svcLog[t][k - 2].conn
                      /\ svcLog[t][k].out = svcLog[t][k - 1].out
        /\ \A j, k \in Rounds(t) :
               j # k => Round(t, j)[1].req.id # Round(t, k)[1].req.id
        /\ pc[t] = "dma_service" <=> Len(svcLog[t]) % 3 = 1
        /\ pc[t] = "dma_respond" <=> Len(svcLog[t]) % 3 = 2
        /\ Len(svcLog[t]) % 3 = 0 => pc[t] \in {"unborn", "loop", "dma_wait"}

\* a responder has completed two rounds, for requests of different sizes,
\* and awaits the next request
C16_TwoRoundsDone ==
    \E t \in Loops :
        /\ Len(svcLog[t]) = 6
        /\ svcLog[t][1].req.size # svcLog[t][4].req.size
        /\ pc[t] = "dma_wait"


\* every DMA request the peer has issued so far
Issued ==
    {dmaReq[f] : f \in {g \in Fds : dmaIn[g]}} \cup
    UNION {{svcLog[t][k].req : k \in 1..Len(svcLog[t])} : t \in Loops}

\* the n bytes stored at addr, lowest address first
BytesAt(m, addr, n) == [k \in 1..n |-> m[addr + k - 1]]

\* the scenario's request: the first DMA request, issued during the first
\* dispatch, a read of 8 bytes at ScenAddr
MoveIn == [id |-> 1, for |-> 1, addr |-> ScenAddr, size |-> 8, data |-> ZeroData]

\* C15: in a dispatch during which the peer issues the single DMA read
\* request {ScenAddr, 8} and answers the command only after it has the DMA
\* response, from the moment the peer answers, and so when the caller
\* observes the command response, the DMA read response has been sent on
\* the DMA-read connection and carries exactly the 8 bytes stored at
\* ScenAddr in its low half and zeros in its high half.
C15_MoveInReadBeforeResponse ==
    (seq = 1 /\ ansRid = 1 /\ orderly /\ Issued = {MoveIn}) =>
        \E e \in Responses :
            /\ e.req = MoveIn
            /\ e.conn = dma_read_sock_fd
            /\ e.out.lo = BytesAt(mem, ScenAddr, 8)
            /\ e.out.hi = Zero8

\* the scenario has run to the return of the dispatch, on a memory whose
\* bytes at ScenAddr have their top bits set
C15_MoveInReturned ==
    /\ seq = 1
    /\ Returned
    /\ how = "ok"
    /\ orderly
    /\ Issued = {MoveIn}
    /\ mem[ScenAddr] = 200


\* C20: nothing orders the rebinding of the callback pair against the
\* responder loops. Whenever a responder is servicing a request while the
\* caller is between two dispatches, set_dma_callbacks can run at once; and
\* a responder servicing a request of an earlier dispatch than the one the
\* installed pair belongs to can call that pair at once.
C20_NothingOrdersRebinding ==
    \A t \in Loops :
        /\ (pc[t] = "dma_service" /\ pc[Main] = "idle" /\ seq < MaxSeq /\ dma_cb = seq) =>
               ENABLED CustomFnInstall
        /\ (pc[t] = "dma_service" /\ Current(t).for < dma_cb) =>
               ENABLED HandleDma(t)

\* the race has happened: set_dma_callbacks ran while responder t was
\* servicing, and t has called the pair of dispatch i + 1 for a request
\* the peer issued for dispatch i
C20_StaleEpochServiced ==
    \E t \in rebound :
        \E k \in 1..Len(svcLog[t]) :
            /\ svcLog[t][k].ev = "cb"
            /\ svcLog[t][k].epoch = svcLog[t][k].req.for + 1


\* the response to the i-th DMA request the peer issued has been sent
Answered(i) == \E e \in Responses : e.req.id = i

\* C14: DMA requests are serviced while a dispatch is blocked on its
\* command response. Under fair scheduling and without transport failure,
\* every DMA request the peer issues is eventually answered (again and
\* again, all requests issued have their response), and a dispatch that
\* waits for its command response eventually stops waiting, which it does
\* only by returning the result the peer answered with.
C14_DmaServicedWhileBlocked ==
    /\ []<>(\A i \in 1..dmaIssued : Answered(i))
    /\ []<>(pc[Main] # "recv_wait")
    /\ [][(pc[Main] = "recv_wait" /\ pc'[Main] # "recv_wait") =>
              (Returned' /\ how' = "ok" /\ ret' = ansVal)]_vars

\* the caller is still blocked on a command response the peer has not sent
\* and every DMA request of the run has been answered meanwhile, on both
\* channels
C14_AnsweredWhileBlocked ==
    /\ pc[Main] = "recv_wait"
    /\ \E f \in Fds : Len(cmdIn[f]) >= RecLen
    /\ dmaIssued = MaxDmaLive
    /\ \A i \in 1..MaxDmaLive : Answered(i)
    /\ \A t \in Loops : pc[t] = "unborn" \/ svcLog[t] # <<>>
    /\ \E t \in Loops : svcLog[t] # <<>>


\* responder t has a request to deal with: one that has arrived on its
\* connection or one it is servicing
Busy(t) ==
    \/ pc[t] \in {"dma_service", "dma_respond"}
    \/ pc[t] \in {"loop", "dma_wait"} /\ LoopFd(t) \in Fds /\ dmaIn[LoopFd(t)]

\* C18: the read-side and the write-side responder are independent. A
\* responder that has a request on its connection, or is servicing one, can
\* take its next step at once, whatever the other responder is doing; and
\* under fair scheduling each responder again and again has answered
\* everything that arrived on its channel.
C18_LoopsIndependent ==
    /\ [](\A t \in Loops :
             /\ (pc[t] = "dma_wait" /\ rfd[t] \in fdOpen /\ dmaIn[rfd[t]]) =>
                    ENABLED DmaRecvRecord(t)
             /\ pc[t] = "dma_service" => ENABLED HandleDma(t)
             /\ pc[t] = "dma_respond" => ENABLED DmaSendResp(t)
             /\ pc[t] = "loop" => ENABLED LoopWhile(t))
    /\ \A t \in Loops : []<>(~Busy(t))

\* a request has arrived for the read side while the write side is in the
\* middle of servicing one, and the read side has serviced nothing yet
C18_ReadArrivesDuringWrite ==
    /\ pc[RdLoop(1)] = "dma_wait"
    /\ dmaIn[rfd[RdLoop(1)]]
    /\ svcLog[RdLoop(1)] = <<>>
    /\ pc[WrLoop(1)] = "dma_service"


\* ------------------------------------------------ responder threads and close
\* responder t is blocked in recv() on a connection that is open
Receiving(t) == pc[t] = "dma_wait" /\ rfd[t] \in fdOpen

\* C28: at most one responder loop per side is live on a Session: no two
\* responder threads ever wait for requests on the same open connection,
\* so a loop started for an earlier connection does not go on to serve the
\* connection of a later one.
C28_OneLoopPerSide ==
    \A t, u \in Loops :
        (t # u /\ Receiving(t) /\ Receiving(u)) => rfd[t] # rfd[u]

\* C29: when a close() called by the caller returns, no responder loop is
\* in Servicing (about to call the callback, read the Session's fields and
\* send a response).
C29_CloseWaitsForLoops ==
    [][(pc[Main] = "close" /\ pc'[Main] # "close") =>
           \A t \in Loops : pc'[t] # "dma_service"]_vars

\* C30: a responder loop exists only once the callback pair is installed:
\* whenever a responder thread has been started, set_dma_callbacks has run.
C30_CallbacksBeforeLoops ==
    \A t \in Loops : pc[t] # "unborn" => dma_cb > 0

\* a responder started by the first dispatch's connect is servicing a
\* request with the pair that dispatch installed
C30_FirstLoopServicing ==
    /\ seq = 1
    /\ dma_cb = 1
    /\ \E t \in Loops : pc[t] = "dma_service" /\ Current(t).for = 1


\* ------------------------------------------------------ the memory callbacks
\* the memory the k-th access left behind
After(k) == IF k < Len(access) THEN access[k + 1].before ELSE mem

\* the w-byte value in d as a read of width w returns it
AsRead(d, w) == IF w = 16 THEN d ELSE [lo |-> Widen(Take(d.lo, w)), hi |-> Zero8]

\* C21: round trip. A read of width w at an address returns the w-byte
\* value that the last write of width w at that address stored, when no
\* other write came in between.
C21_RoundTrip ==
    \A j, k \in 1..Len(access) :
        (/\ j < k
         /\ access[j].op = "write"
         /\ access[k].op = "read"
         /\ access[k].addr = access[j].addr
         /\ access[k].size = access[j].size
         /\ \A i \in (j + 1)..(k - 1) : access[i].op = "read") =>
            access[k].data = AsRead(access[j].data, access[j].size)

\* a 2-byte value with its top bit set, written and read back with another
\* read in between
C21_WrittenAndReadBack ==
    /\ Len(access) = 3
    /\ access[1].op = "write" /\ access[1].size = 2 /\ access[1].data = HighData
    /\ access[2].op = "read" /\ access[2].addr # access[1].addr
    /\ access[3].op = "read" /\ access[3].size = 2
    /\ access[3].addr = access[1].addr

\* C22: a read of width w in {1, 2, 4, 8} at address a makes exactly w
\* single-byte loads, at a, a+1, ..., a+w-1, and byte i of the value it
\* returns is the byte stored at a+i, taken as unsigned: the value is the
\* sum of byte(a+i) * 2^(8*i).
C22_LittleEndianRead ==
    \A k \in 1..Len(access) :
        (access[k].op = "read" /\ access[k].size \in {1, 2, 4, 8}) =>
            /\ access[k].trace =
                   [i \in 1..access[k].size |-> access[k].addr + i - 1]
            /\ \A i \in 1..access[k].size :
                   access[k].data.lo[i] = access[k].before[access[k].addr + i - 1]

\* a 4-byte read of bytes that have their top bits set
C22_ReadOfHighBytes ==
    \E k \in 1..Len(access) :
        /\ access[k].op = "read"
        /\ access[k].size = 4
        /\ \A i \in 0..3 : access[k].before[access[k].addr + i] >= 128

\* C23: a 16-byte read at a returns bytes a..a+7 as its low half and
\* bytes a+8..a+15 as its high half, least significant first, and a
\* 16-byte write stores its low half to a..a+7 and its high half to
\* a+8..a+15 and nothing else, whatever accesses were made before.
C23_SixteenByteHalves ==
    \A k \in 1..Len(access) :
        access[k].size = 16 =>
            IF access[k].op = "read"
              THEN /\ access[k].data.lo = BytesAt(access[k].before, access[k].addr, 8)
                   /\ access[k].data.hi =
                          BytesAt(access[k].before, access[k].addr + 8, 8)
              ELSE \A x \in Addrs :
                      After(k)[x] =
                          IF x \in access[k].addr..(access[k].addr + 7)
                            THEN access[k].data.lo[x - access[k].addr + 1]
                          ELSE IF x \in (access[k].addr + 8)..(access[k].addr + 15)
                            THEN access[k].data.hi[x - access[k].addr - 7]
                          ELSE access[k].before[x]

\* a 16-byte read at an unaligned address after a 16-byte write that
\* overlaps it and a narrower write
C23_SixteenAfterOthers ==
    /\ Len(access) = 3
    /\ access[1].op = "write" /\ access[1].size = 16 /\ access[1].addr = ScenAddr
    /\ access[2].op = "write" /\ access[2].size = 4
    /\ access[3].op = "read" /\ access[3].size = 16 /\ access[3].addr = ScenAddr + 3


\* ------------------------------------------- DMA requests of every size
\* C24: the response to a DMA read of size 1, 2, 4 or 8 has a high half
\* of zero and a low half whose bytes from the size-th on are zero,
\* whatever the memory holds.
C24_UnusedBitsZero ==
    \A e \in Responses :
        (e.conn = dma_read_sock_fd /\ e.req.size \in {1, 2, 4, 8}) =>
            /\ e.out.hi = Zero8
            /\ \A k \in (e.req.size + 1)..8 : e.out.lo[k] = 0

\* a 2-byte read whose most significant byte has its top bit set has been
\* answered
C24_NarrowReadOfHighBytes ==
    \E e \in Responses :
        /\ e.conn = dma_read_sock_fd
        /\ e.req.size = 2
        /\ e.out.lo[2] >= 128

Operand(use, r) == IF use THEN hart.XPR[r] ELSE AllOnesReg

\* C26: every record this side sends is tagged and zero-padded. A command
\* request has kind CMD_REQ, reserved 0, padding 0 and carries the
\* function and the two operands the dispatch was called with; a DMA read
\* response has kind DMA_READ_RESP, reserved 0 and carries the low and
\* high halves the read callback has just returned; a DMA write response
\* has kind DMA_WRITE_RESP with both reserved fields 0.
C26_RecordsTaggedAndPadded ==
    [][\A e \in hart'.emitted \ hart.emitted :
          /\ e.conn \in {cmd_sock_fd, dma_read_sock_fd, dma_write_sock_fd}
          /\ e.rec.header.reserved = 0
          /\ (e.conn = cmd_sock_fd) =>
                /\ e.rec.header.msg_type = "MSG_TYPE_CMD_REQ"
                /\ e.rec.padding = 0
                /\ e.rec.funct = hart.args[1]
                /\ e.rec.xs1 = hart.args[2]
                /\ e.rec.xs2 = hart.args[3]
          /\ (e.conn = dma_read_sock_fd) =>
                /\ e.rec.header.msg_type = "MSG_TYPE_DMA_READ_RESP"
                /\ svcLog[e.by][Len(svcLog[e.by])].ev = "cb"
                /\ e.rec.data_lo = svcLog[e.by][Len(svcLog[e.by])].out.lo
                /\ e.rec.data_hi = svcLog[e.by][Len(svcLog[e.by])].out.hi
          /\ (e.conn = dma_write_sock_fd) =>
                /\ e.rec.header.msg_type = "MSG_TYPE_DMA_WRITE_RESP"
                /\ e.rec.reserved = 0]_vars

\* a command request with an unused first operand, a read response with a
\* high half that is not zero and a write response have all been sent
C26_AllThreeKindsSent ==
    /\ \E e \in hart.emitted :
          /\ e.rec.header.msg_type = "MSG_TYPE_CMD_REQ"
          /\ e.rec.xs1 = AllOnesReg
          /\ e.rec.xs2 = XprInit[11]
    /\ \E e \in hart.emitted :
          /\ e.rec.header.msg_type = "MSG_TYPE_DMA_READ_RESP"
          /\ e.rec.data_hi # Zero8
    /\ \E e \in hart.emitted : e.rec.header.msg_type = "MSG_TYPE_DMA_WRITE_RESP"

\* C27: each executed custom instruction sets the callbacks exactly once
\* and then dispatches exactly once, with the instruction's function and
\* its operands (all-ones for an operand whose use bit is clear); the
\* value the dispatch returned is written to the destination register if
\* and only if xd is set; and the program counter advances by 4, whatever
\* path the dispatch returned by.
C27_OneRebindOneDispatch ==
    [][/\ (hart.stage = "calling" /\ hart'.stage = "fetch") =>
             /\ hart.installs = 1
             /\ hart.dispatches = 1
             /\ seq = hart.seq0 + 1
             /\ dma_cb = seq
             /\ hart.args = <<hart.insn.funct,
                              Operand(hart.insn.xs1, hart.insn.rs1),
                              Operand(hart.insn.xs2, hart.insn.rs2)>>
             /\ hart'.pc = hart.pc + 4
             /\ hart'.XPR = IF hart.insn.xd
                              THEN [hart.XPR EXCEPT ![hart.insn.rd] = ret]
                              ELSE hart.XPR
       /\ (seq' # seq) =>
             /\ hart.stage = "calling"
             /\ hart.installs = 1
             /\ hart.dispatches = 1
             /\ dma_cb = seq'
       /\ (dma_cb' # dma_cb) => (hart'.installs = 1 /\ hart.dispatches = 0)
       /\ (hart'.stage = hart.stage) => (hart'.pc = hart.pc /\ hart'.XPR = hart.XPR)
      ]_vars

\* two instructions have retired: the first, with xd set and destination
\* register 10, failed to connect and wrote 0; the second, with its first
\* use bit and xd clear, succeeded with a result that was not written
C27_RetiredAfterFailure ==
    /\ hart.stage = "fetch"
    /\ hart.pc = 8
    /\ prev = "connect_failed"
    /\ how = "ok"
    /\ ret = AllOnes
    /\ hart.insn.funct = 25
    /\ hart.XPR = [XprInit EXCEPT ![10] = 0]

C34_ConnectWhenReadyIsNoOp ==
    [][(/\ pc[Main] = "init"
        /\ socket_initialized
        /\ pc'[Main] # "init") =>
            /\ initRes'
            /\ pc'[Main] = Head(stack[Main])
            /\ UNCHANGED <<session, net, gen, opened, nSpawn, spawnGen>>
            /\ \A t \in Loops : pc'[t] = pc[t]]_vars

\* the caller's own init() has returned true without a connect attempt,
\* on the Session an earlier init() connected, whose responders are alive
C34_SecondInitReturned ==
    /\ pc[Main] = "init_done"
    /\ initRes
    /\ tries = 0
    /\ socket_initialized
    /\ gen = 1
    /\ nSpawn = 1
    /\ \E t \in Loops : pc[t] = "dma_wait"

\* ------------------------------------- close() during a dispatch's calls
\* C33: a dispatch never sends or receives on the command connection with
\* a handle that a close() run by another thread has invalidated: when the
\* caller has passed the test of cmd_sock_fd in send_cmd_request or
\* recv_cmd_response and is about to call send() or recv(), the handle is
\* still valid and names an open connection.
C33_NoCloseBetweenCheckAndUse ==
    pc[Main] \in {"send_call", "recv_call"} =>
        (cmd_sock_fd >= 0 /\ cmd_sock_fd \in fdOpen)

\* ------------------------------------- a read beside an overlapping write
\* C31: a DMA read returns a consistent snapshot of the bytes it
\* addresses: the value the read callback returns is the value of those
\* bytes in the memory as it was with no write callback part-way through
\* its stores, at the read's first load or at some moment up to its last,
\* never a mixture of bytes from before and after a write.
C31_NoTornRead ==
    \A t \in Loops :
        (IsRdLoop(t) /\ pc[t] = "dma_respond") =>
            \E m \in xfer[t].seen :
                svcLog[t][Len(svcLog[t])].out =
                    ReadCb(m, Current(t).addr, Current(t).size)

\* ------------------------------------------ the single-connection client
\* C35: after any calls of init, close and send_and_wait of the
\* single-connection client, whatever socket(), connect(), send() and
\* recv() returned, is_connected() is true exactly when the handle is a
\* descriptor the client has open; a send_and_wait whose send or receive
\* failed returned 0 and left the client disconnected, and a send_and_wait
\* that follows it made exactly one connect attempt.
C35_LegacyDisconnectsOnFailure ==
    /\ legacy.socket_initialized <=> legacy.sock_fd >= 0
    /\ legacy.sock_fd >= 0 => legacy.sock_fd \in legacy.open
    /\ \A k \in 1..Len(legacy.calls) :
           (/\ legacy.calls[k].call = "send_and_wait"
            /\ legacy.calls[k].end \in {"send_fails", "recv_fails", "recv_closed"})
           => /\ legacy.calls[k].ret = 0
              /\ ~legacy.calls[k].now
              /\ (k < Len(legacy.calls) /\ legacy.calls[k + 1].call = "send_and_wait")
                 => legacy.calls[k + 1].attempts = 1
C35_ReconnectedAfterFailedReceive ==
    /\ Len(legacy.calls) = 3
    /\ legacy.calls[1].call = "init" /\ legacy.calls[1].now
    /\ legacy.calls[2].call = "send_and_wait" /\ legacy.calls[2].end = "recv_closed"
    /\ legacy.calls[2].attempts = 0
    /\ legacy.calls[3].call = "send_and_wait" /\ legacy.calls[3].attempts = 1
    /\ legacy.calls[3].end = "recv_full" /\ legacy.calls[3].ret = AllOnes
    /\ legacy.socket_initialized /\ legacy.sock_fd \in legacy.open

\* ------------------------------------------------- the signal collector
\* C36: whenever a collect() that took a snapshot has returned and the
\* maximum history size is not 0, the history holds at most that many
\* snapshots, also when the maximum was lowered below the history's size
\* before the call, and the snapshots kept are the latest ones, in the
\* order they were taken.
C36_HistoryWithinMaximum ==
    [][(enabled /\ current_cycle' = current_cycle + 1 /\ max_history_size > 0) =>
          /\ Len(signal_history') <= max_history_size
          /\ \A k \in 1..Len(signal_history') :
                 signal_history'[k].cycle =
                     current_cycle' - Len(signal_history') + k - 1]_vars

\* C37: every entry line of the trace file has the columns of the header
\* line enableTrace wrote, in the same order, whatever registerSignal,
\* unregisterSignal and collect calls followed enableTrace.
C37_EntryColumnsAreHeaderColumns ==
    \A i, j \in 1..Len(trace_file.lines) :
        (trace_file.lines[i].kind = "header" /\ trace_file.lines[j].kind = "entry")
        => trace_file.lines[j].cols = trace_file.lines[i].cols

\* C38: the names with a probe are the names with metadata; no call
\* changes the probe or the metadata of a name that stays registered;
\* registerSignal of a registered name and unregisterSignal of an unknown
\* name return false and leave both maps as they were.
C38_RegistrationAllOrNothing ==
    /\ [](DOMAIN signal_probes = DOMAIN signal_metadata)
    /\ [][\A n \in DOMAIN signal_probes \cap DOMAIN signal_probes' :
              /\ signal_probes'[n] = signal_probes[n]
              /\ signal_metadata'[n] = signal_metadata[n]]_vars
    /\ [][\A name \in Signals, reg \in Registrations :
              (name \in DOMAIN signal_probes /\ registerSignal(name, reg))
              => /\ ~returned'
                 /\ UNCHANGED <<signal_probes, signal_metadata>>]_vars
    /\ [][\A name \in Signals :
              (name \notin DOMAIN signal_probes /\ unregisterSignal(name))
              => /\ ~returned'
                 /\ UNCHANGED <<signal_probes, signal_metadata>>]_vars
C38_DuplicateRefused ==
    /\ ~returned
    /\ DOMAIN signal_probes = Signals
    /\ signal_probes["clk"] = "p1" /\ signal_metadata["clk"] = <<"UINT64", "first">>
    /\ signal_probes["pc"] = "p2" /\ signal_metadata["pc"] = <<"BOOL", "">>

\* C39: while collection is disabled no call, collect included, adds a
\* snapshot, advances the cycle counter or writes a trace entry; a
\* collect() while enabled advances the counter by one and appends one
\* snapshot numbered with the counter's value before the call, holding
\* readings of registered signals only (a probe that throws leaves its own
\* signal out); the cycle numbers in the history are strictly increasing,
\* also after clearHistory.
C39_CollectNumbersSnapshots ==
    /\ [][~enabled =>
              /\ current_cycle' = current_cycle
              /\ signal_history' \in {signal_history, <<>>}
              /\ \/ trace_file'.lines = trace_file.lines
                 \/ \A i \in 1..Len(trace_file'.lines) :
                        trace_file'.lines[i].kind # "entry"]_vars
    /\ [][(enabled /\ collect) =>
              /\ current_cycle' = current_cycle + 1
              /\ Len(signal_history') > 0
              /\ signal_history'[Len(signal_history')].cycle = current_cycle
              /\ DOMAIN signal_history'[Len(signal_history')].signals
                     \subseteq DOMAIN signal_probes
              /\ \/ SubSeq(signal_history', 1, Len(signal_history') - 1)
                        = signal_history
                 \/ /\ signal_history # <<>>
                    /\ SubSeq(signal_history', 1, Len(signal_history') - 1)
                           = Tail(signal_history)]_vars
    /\ [](\A i, j \in 1..Len(signal_history) :
              i < j => signal_history[i].cycle < signal_history[j].cycle)
C39_ThrowingProbeAfterClear ==
    /\ enabled
    /\ current_cycle = 2
    /\ Len(signal_history) = 1
    /\ signal_history[1].cycle = 1
    /\ DOMAIN signal_probes = Signals
    /\ DOMAIN signal_history[1].signals = {"pc"}
    /\ trace_file.is_open
    /\ Len(trace_file.lines) = 5
    /\ trace_file.lines[5].cells = <<"tick", 1, "N/A", "1">>

====
